---- MODULE Spec2Model ----
(***************************************************************************)
(* blast-radius: the discovery engine (internal/discover) and the          *)
(* dependency graph (internal/graph).                                       *)
(*                                                                         *)
(* A Go string that the code splits on ':' and '/' is modelled by its      *)
(* split: a sequence of ':'-separated segments, each a sequence of         *)
(* '/'-separated atoms.  "arn:aws:rds:r1:a1:db:i1" is                      *)
(* <<<<"arn">>,<<"aws">>,<<"rds">>,<<"r1">>,<<"a1">>,<<"db">>,<<"i1">>>>.  *)
(* An optional (pointer) field is a sequence of length 0 or 1.             *)
(***************************************************************************)
EXTENDS Integers, Sequences, FiniteSets, TLC

(***************************************************************************)
(* Bounds of the model.                                                    *)
(***************************************************************************)
\* largest --depth explored (Options.MaxDepth ranges over 0..MaxDepthBound)
MaxDepthBound == 3
\* largest --max-nodes explored (Options.MaxNodes ranges over 1..MaxNodesBound)
MaxNodesBound == 4
\* largest number of member instances of the modelled RDS cluster
MaxMembers == 2
\* number of calls the clients of the graph package make (in sequence, or
\* in all over the concurrent goroutines)
MaxCalls == 3

\* number of edges of the graphs handed to Graph.BFS directly
MaxEdges == 4

(***************************************************************************)
(* Strings                                                                 *)
(***************************************************************************)
Str(a) == << <<a>> >>

EmptyStr == Str("")

Arn(service, resource) ==
    << <<"arn">>, <<"aws">>, <<service>>, <<"r1">>, <<"a1">> >> \o resource

\* strings.HasPrefix(s, "arn:")
IsArnPrefixed(s) == Len(s) >= 2 /\ s[1] = <<"arn">>

\* strings.HasPrefix(s, p + ":") for a plain word p
HasColonPrefix(s, p) == Len(s) >= 2 /\ s[1] = <<p>>

\* strings.HasPrefix(s, p + "/") for a plain word p
HasSlashPrefix(s, p) == Len(s[1]) >= 2 /\ s[1][1] = p

\* strings.TrimPrefix(s, p + ":") when the prefix is there
TrimColonPrefix(s) == Tail(s)

\* strings.Contains(s, "/")
ContainsSlash(s) == \E k \in 1..Len(s) : Len(s[k]) >= 2

\* strings.Split(s, "/"): the pieces between slashes, each again a string
RECURSIVE SplitSlashFrom(_, _, _)
SplitSlashFrom(s, k, cur) ==
    \* cur: the piece being built, its last segment still open
    IF k > Len(s) THEN << cur >>
    ELSE LET seg  == s[k]
             head == IF cur = << >> THEN << <<seg[1]>> >>
                     ELSE Append(cur, <<seg[1]>>)
         IN IF Len(seg) = 1
            THEN SplitSlashFrom(s, k + 1, head)
            ELSE << head >>
                 \o [j \in 1..(Len(seg) - 2) |-> Str(seg[j + 1])]
                 \o SplitSlashFrom(s, k + 1, Str(seg[Len(seg)]))

SplitSlash(s) == SplitSlashFrom(s, 1, << >>)

(***************************************************************************)
(* internal/graph: Node, Edge, Graph                                       *)
(***************************************************************************)
\* graph.Node; Metadata is kept for the one key the engine reads ("cluster")
Node(id, type, arn, name, cluster) ==
    [ID |-> id, Type |-> type, ARN |-> arn, Name |-> name, cluster |-> cluster]

\* the nil *Node that a failed map lookup yields
NilNode == Node(EmptyStr, "", EmptyStr, EmptyStr, << >>)

Edge(from, to, rel, api) ==
    [From |-> from, To |-> to, RelationType |-> rel,
     Evidence |-> [APICall |-> api, Heuristic |-> FALSE]]

\* Graph: nodes, edges, and (history, not fields of the Go struct) the edges
\* that were added while one of their endpoints was not a node, and the ids
\* of the nodes the heuristic resolver was invoked for
New == [nodes |-> [id \in {} |-> NilNode], edges |-> << >>, dangling |-> {},
        upstream |-> {}]

\* a buggy AddNode that keeps the record already stored for the id
AddNodeKeepFirst(gr, node) ==
    [gr EXCEPT !.nodes =
        [id \in DOMAIN gr.nodes \cup {node.ID} |->
            IF id \in DOMAIN gr.nodes THEN gr.nodes[id] ELSE node]]

AddNode(gr, node) ==
    [gr EXCEPT !.nodes =
        [id \in DOMAIN gr.nodes \cup {node.ID} |->
            IF id = node.ID THEN node ELSE gr.nodes[id]]]

\* a buggy AddEdge that skips an edge already present
AddEdgeOnce(gr, edge) ==
    IF \E k \in DOMAIN gr.edges : gr.edges[k] = edge THEN gr
    ELSE [gr EXCEPT !.edges = Append(gr.edges, edge)]

AddEdge(gr, edge) ==
    [gr EXCEPT !.edges = Append(gr.edges, edge),
               !.dangling = IF edge.From \in DOMAIN gr.nodes /\ edge.To \in DOMAIN gr.nodes
                            THEN @ ELSE @ \cup {edge}]

GetNode(gr, id) ==
    IF id \in DOMAIN gr.nodes
    THEN [node |-> gr.nodes[id], ok |-> TRUE]
    ELSE [node |-> NilNode, ok |-> FALSE]

HasNode(gr, id) == id \in DOMAIN gr.nodes

NodeCount(gr) == Cardinality(DOMAIN gr.nodes)

\* Graph.mu (sync.RWMutex): the goroutine that holds or awaits the write
\* lock (having locked out new readers and other writers), and the
\* goroutines holding the read lock ("" is no goroutine)
\* goroutines holding the read lock ("" is no goroutine)
Unlocked == [w |-> "", readers |-> {}]

\* a buggy Lock that does not exclude other writers
WriterNeverWaits(m) == TRUE

\* Lock first takes the writers' mutex: one writer at a time holds or
\* awaits the lock, and from then on no new reader gets in
WriterReady(m) == m.w = ""

\* Lock then waits for the readers that hold the lock to leave
ReadersGone(m) == m.readers = {}

\* RLock returns once no writer holds or awaits the lock
RLockReady(m) == m.w = ""

EdgeCount(gr) == Len(gr.edges)

\* Graph.Edges: a copy of the slice, in insertion order
Edges(gr) == [k \in 1..Len(gr.edges) |-> gr.edges[k]]

\* Graph.EdgesTo
EdgesTo(gr, nodeID) == SelectSeq(gr.edges, LAMBDA edge : edge.To = nodeID)

\* Graph.BFS, the loop over g.edges for the node just dequeued;
\* st = [visited, queue, nodes] are the locals of BFS
RECURSIVE BFSScanEdges(_, _, _, _)
BFSScanEdges(gr, k, nodeID, st) ==
    IF k > Len(gr.edges) THEN st
    ELSE LET edge == gr.edges[k] IN
         IF edge.From = nodeID /\ edge.To \notin st.visited
         THEN BFSScanEdges(gr, k + 1, nodeID,
                  [st EXCEPT !.visited = @ \cup {edge.To}, !.queue = Append(@, edge.To)])
         ELSE BFSScanEdges(gr, k + 1, nodeID, st)

\* Graph.BFS, the loop over one level; an entry of level.Nodes is what the
\* map read g.nodes[nodeID] gives: the node, or the nil pointer (ok = FALSE)
RECURSIVE BFSLevelLoop(_, _, _, _)
BFSLevelLoop(gr, k, levelSize, st) ==
    IF ~(k < levelSize) THEN st
    ELSE LET nodeID == Head(st.queue)
             popped == [st EXCEPT !.queue = Tail(@),
                                  !.nodes = Append(@, GetNode(gr, nodeID))]
         IN BFSLevelLoop(gr, k + 1, levelSize, BFSScanEdges(gr, 1, nodeID, popped))

\* Graph.BFS, the loop over the levels
RECURSIVE BFSLoop(_, _, _, _)
BFSLoop(gr, st, currentDepth, levels) ==
    IF ~(Len(st.queue) > 0) THEN levels
    ELSE LET after == BFSLevelLoop(gr, 0, Len(st.queue), [st EXCEPT !.nodes = << >>])
         IN BFSLoop(gr, after, currentDepth + 1,
                    Append(levels, [Depth |-> currentDepth, Nodes |-> after.nodes]))

\* a buggy BFS that starts the traversal without looking the start id up
BFSUnchecked(gr, startID) ==
    BFSLoop(gr, [visited |-> {startID}, queue |-> << startID >>, nodes |-> << >>], 0, << >>)

\* Graph.BFS; the nil result is the empty sequence
BFS(gr, startID) ==
    IF ~HasNode(gr, startID) THEN << >>
    ELSE BFSLoop(gr, [visited |-> {startID}, queue |-> << startID >>, nodes |-> << >>],
                 0, << >>)

(***************************************************************************)
(* internal/output: RenderTree.  The text written is modelled by its       *)
(* lines: per level the depth and, per node, the id the line is about, the *)
(* type, the name and the relation shown (a sequence of length 0 or 1),    *)
(* and the summary line's two counts.  Reading a field of a nil node       *)
(* panics; nothing of the output is kept then.                             *)
(***************************************************************************)
NotRendered == [err |-> FALSE, panic |-> FALSE, levels |-> << >>, summary |-> << >>]

TreeLine(gr, node) ==
    LET edges == EdgesTo(gr, node.ID) IN
    [ID |-> node.ID, Type |-> node.Type, Name |-> node.Name,
     relType |-> IF Len(edges) > 0 THEN << edges[1].RelationType >> ELSE << >>]

RenderTree(gr, startID) ==
    LET levels == BFS(gr, startID) IN
    IF Len(levels) = 0
    THEN [NotRendered EXCEPT !.err = TRUE]
    ELSE IF \E l \in DOMAIN levels : \E k \in DOMAIN levels[l].Nodes : ~levels[l].Nodes[k].ok
    THEN [NotRendered EXCEPT !.panic = TRUE]
    ELSE [NotRendered EXCEPT
            !.levels = [l \in DOMAIN levels |->
                           [Depth |-> levels[l].Depth,
                            lines |-> [k \in DOMAIN levels[l].Nodes |->
                                          TreeLine(gr, levels[l].Nodes[k].node)]]],
            !.summary = << [nodes |-> NodeCount(gr), edges |-> EdgeCount(gr)] >>]

(***************************************************************************)
(* The AWS account the run reads (the API responses are the program's      *)
(* input).  api.dbInstances and api.dbClusters map an identifier to the    *)
(* record DescribeDBInstances / DescribeDBClusters returns for it.         *)
(* An API call's input `in` carries what the environment decides at the    *)
(* call: in.fault names the call that fails, in.rev the order in which     *)
(* list-valued fields come back.                                           *)
(***************************************************************************)
RECURSIVE Reverse(_)
Reverse(s) == IF s = << >> THEN << >> ELSE Append(Reverse(Tail(s)), Head(s))

Order(in, s) == IF in.rev THEN Reverse(s) ELSE s

RECURSIVE FoldLeft(_, _, _)
FoldLeft(Op(_, _), acc, s) ==
    IF s = << >> THEN acc ELSE FoldLeft(Op, Op(acc, Head(s)), Tail(s))

ResourceTypeLoadBalancer            == "LoadBalancer"
ResourceTypeECSService              == "ECSService"
ResourceTypeLambda                  == "Lambda"
ResourceTypeRDSInstance             == "RDSInstance"
ResourceTypeRDSCluster              == "RDSCluster"
ResourceTypeDBSubnetGroup           == "DBSubnetGroup"
ResourceTypeSubnet                  == "Subnet"
ResourceTypeSecurityGroup           == "SecurityGroup"
ResourceTypeDBParameterGroup        == "DBParameterGroup"
ResourceTypeDBClusterParameterGroup == "DBClusterParameterGroup"

\* what an expander (and each of its sub-queries) returns, with the graph it
\* has mutated
Result(gr, neighbors, err) == [g |-> gr, neighbors |-> neighbors, err |-> err]

Failed(gr) == Result(gr, << >>, TRUE)

\* a buggy expander step that adds the edge before the node
EmitEdgeFirst(acc, node, edge) ==
    Result(AddNode(AddEdge(acc.g, edge), node), Append(acc.neighbors, node.ID), acc.err)

\* g.AddNode(n); g.AddEdge(e); neighbors = append(neighbors, n.ID)
Emit(acc, node, edge) ==
    Result(AddEdge(AddNode(acc.g, node), edge), Append(acc.neighbors, node.ID), acc.err)

\* a buggy absorption that fails the expansion with its sub-query
AbsorbOrFail(acc, sub) ==
    IF sub.err THEN Result(sub.g, << >>, TRUE)
    ELSE Result(sub.g, acc.neighbors \o sub.neighbors, acc.err)

\* neighbors = append(neighbors, sub...) unless the sub-query failed; the
\* graph keeps what the sub-query added either way
Absorb(acc, sub) ==
    Result(sub.g, IF sub.err THEN acc.neighbors ELSE acc.neighbors \o sub.neighbors, acc.err)

\* a related resource known only by its id: Name is the id, ARN is unset
IdNode(id, type) == Node(id, type, EmptyStr, id, << >>)

\* a related resource known by its ARN
ArnNode(arn, type, name) == Node(arn, type, arn, name, << >>)

(***************************************************************************)
(* RDS                                                                     *)
(***************************************************************************)
DescribeDBInstances(api, identifier, in) ==
    IF in.fault = "describe" \/ identifier \notin DOMAIN api.dbInstances
    THEN [err |-> TRUE, DBInstances |-> << >>]
    ELSE [err |-> FALSE, DBInstances |-> << api.dbInstances[identifier] >>]

DescribeDBClusters(api, identifier, in) ==
    IF in.fault = "describe" \/ identifier \notin DOMAIN api.dbClusters
    THEN [err |-> TRUE, DBClusters |-> << >>]
    ELSE [err |-> FALSE, DBClusters |-> << api.dbClusters[identifier] >>]

\* a buggy test that takes every heuristic as enabled
hasHeuristicAlways(opts, name) == TRUE

hasHeuristic(opts, name) == \E k \in 1..Len(opts.Heuristics) : opts.Heuristics[k] = name

\* the heuristic resolver is a stub: no node, no edge, no neighbour, no error
discoverRDSUpstream(endpoint, rdsNode, gr) ==
    Result([gr EXCEPT !.upstream = @ \cup {rdsNode.ID}], << >>, FALSE)

discoverRDSInstance(node, gr, opts, api, in) ==
    LET output == DescribeDBInstances(api, node.Name, in) IN
    IF output.err THEN Failed(gr)
    ELSE IF Len(output.DBInstances) = 0 THEN Failed(gr)
    ELSE
    LET instance == output.DBInstances[1]
        s0 == Result(gr, << >>, FALSE)
        s1 == IF instance.DBSubnetGroup = << >> THEN s0
              ELSE LET sng == instance.DBSubnetGroup[1]
                       a   == Emit(s0, IdNode(sng.DBSubnetGroupName, ResourceTypeDBSubnetGroup),
                                   Edge(node.ID, sng.DBSubnetGroupName, "uses-subnet-group",
                                        "DescribeDBInstances"))
                   IN FoldLeft(LAMBDA acc, sn :
                                  Emit(acc, IdNode(sn, ResourceTypeSubnet),
                                       Edge(sng.DBSubnetGroupName, sn, "contains",
                                            "DescribeDBInstances")),
                               a, Order(in, sng.Subnets))
        s2 == FoldLeft(LAMBDA acc, sg :
                          Emit(acc, IdNode(sg, ResourceTypeSecurityGroup),
                               Edge(node.ID, sg, "uses-security-group", "DescribeDBInstances")),
                       s1, Order(in, instance.VpcSecurityGroups))
        s3 == FoldLeft(LAMBDA acc, pg :
                          Emit(acc, IdNode(pg, ResourceTypeDBParameterGroup),
                               Edge(node.ID, pg, "uses-parameter-group", "DescribeDBInstances")),
                       s2, Order(in, instance.DBParameterGroups))
        s4 == IF instance.DBClusterIdentifier = << >> THEN s3
              ELSE LET cid == instance.DBClusterIdentifier[1]
                   IN Emit(s3, IdNode(cid, ResourceTypeRDSCluster),
                           Edge(cid, node.ID, "contains", "DescribeDBInstances"))
        s5 == IF hasHeuristic(opts, "rds-endpoint") /\ instance.Endpoint # << >>
              THEN Absorb(s4, discoverRDSUpstream(instance.Endpoint[1], node, s4.g))
              ELSE s4
    IN s5

discoverRDSCluster(node, gr, opts, api, in) ==
    LET output == DescribeDBClusters(api, node.Name, in) IN
    IF output.err THEN Failed(gr)
    ELSE IF Len(output.DBClusters) = 0 THEN Failed(gr)
    ELSE
    LET cluster == output.DBClusters[1]
        s0 == Result(gr, << >>, FALSE)
        s1 == FoldLeft(LAMBDA acc, m :
                          Emit(acc, IdNode(m, ResourceTypeRDSInstance),
                               Edge(node.ID, m, "contains", "DescribeDBClusters")),
                       s0, Order(in, cluster.DBClusterMembers))
        s2 == IF cluster.DBSubnetGroup = << >> THEN s1
              ELSE Emit(s1, IdNode(cluster.DBSubnetGroup[1], ResourceTypeDBSubnetGroup),
                        Edge(node.ID, cluster.DBSubnetGroup[1], "uses-subnet-group",
                             "DescribeDBClusters"))
        s3 == FoldLeft(LAMBDA acc, sg :
                          Emit(acc, IdNode(sg, ResourceTypeSecurityGroup),
                               Edge(node.ID, sg, "uses-security-group", "DescribeDBClusters")),
                       s2, Order(in, cluster.VpcSecurityGroups))
        s4 == IF cluster.DBClusterParameterGroup = << >> THEN s3
              ELSE Emit(s3, IdNode(cluster.DBClusterParameterGroup[1],
                                   ResourceTypeDBClusterParameterGroup),
                        Edge(node.ID, cluster.DBClusterParameterGroup[1],
                             "uses-parameter-group", "DescribeDBClusters"))
        s5 == IF hasHeuristic(opts, "rds-endpoint") /\ cluster.Endpoint # << >>
              THEN Absorb(s4, discoverRDSUpstream(cluster.Endpoint[1], node, s4.g))
              ELSE s4
    IN s5

discoverRDS(node, gr, opts, api, in) ==
    CASE node.Type = ResourceTypeRDSInstance -> discoverRDSInstance(node, gr, opts, api, in)
      [] node.Type = ResourceTypeRDSCluster  -> discoverRDSCluster(node, gr, opts, api, in)
      [] OTHER -> Failed(gr)

(***************************************************************************)
(* Lambda                                                                  *)
(***************************************************************************)
Last(s) == s[Len(s)]

\* strings.Contains(s, ":" + w + ":") for a plain word w
ContainsColonWord(s, w) == \E k \in 2..(Len(s) - 1) : s[k] = <<w>>

extractNameFromARN(arn) == Last(SplitSlash(arn))

extractRoleNameFromARN(arn) ==
    LET parts == SplitSlash(arn) IN IF Len(parts) >= 2 THEN Last(parts) ELSE arn

extractLambdaNameFromARN(arn) ==
    IF Len(arn) >= 7 /\ arn[6] = <<"function">> THEN << arn[7] >> ELSE arn

\* GetFunction / ListEventSourceMappings / GetFunctionEventInvokeConfig take a
\* function name or a function ARN
FunctionKeys(api, functionName) ==
    {k \in DOMAIN api.functions :
        k = functionName \/ api.functions[k].FunctionArn = functionName}

GetFunction(api, functionName, in) ==
    IF in.fault = "describe" \/ FunctionKeys(api, functionName) = {}
    THEN [err |-> TRUE, Configuration |-> << >>]
    ELSE [err |-> FALSE,
          Configuration |-> << api.functions[CHOOSE k \in FunctionKeys(api, functionName) : TRUE] >>]

SourceType(arn) ==
    IF ContainsColonWord(arn, "sqs") THEN "SQSQueue"
    ELSE IF ContainsColonWord(arn, "dynamodb") THEN "DynamoDBStream"
    ELSE IF ContainsColonWord(arn, "kinesis") THEN "KinesisStream"
    ELSE IF ContainsColonWord(arn, "kafka") THEN "KafkaCluster"
    ELSE "EventSource"

\* one event source mapping of a page
EmitMapping(acc, mapping, lambdaNode) ==
    IF mapping.EventSourceArn = << >> THEN acc
    ELSE
    LET src == mapping.EventSourceArn[1]
        a   == Emit(acc, ArnNode(src, SourceType(src), extractNameFromARN(src)),
                    Edge(src, lambdaNode.ID, "triggers", "ListEventSourceMappings"))
    IN IF mapping.OnFailure = << >> THEN a
       ELSE Emit(a, ArnNode(mapping.OnFailure[1], "EventDestination",
                            extractNameFromARN(mapping.OnFailure[1])),
                 Edge(src, mapping.OnFailure[1], "sends-failures-to",
                      "ListEventSourceMappings"))

\* the paginator loop: page k fails when the environment says so, and the
\* function then returns nil neighbours and the error
RECURSIVE EventSourcePages(_, _, _, _, _)
EventSourcePages(acc, pages, k, lambdaNode, in) ==
    IF k > Len(pages) THEN acc
    ELSE IF in.fault = "esm" /\ in.page = k THEN Failed(acc.g)
    ELSE EventSourcePages(
             FoldLeft(LAMBDA a, m : EmitMapping(a, m, lambdaNode), acc, Order(in, pages[k])),
             pages, k + 1, lambdaNode, in)

discoverEventSourceMappings(functionARN, lambdaNode, gr, api, in) ==
    IF FunctionKeys(api, functionARN) = {} THEN Failed(gr)
    ELSE LET f == api.functions[CHOOSE k \in FunctionKeys(api, functionARN) : TRUE]
         IN EventSourcePages(Result(gr, << >>, FALSE), f.EventSourcePages, 1, lambdaNode, in)

discoverFunctionDestinations(functionName, lambdaNode, gr, api, in) ==
    LET s0 == Result(gr, << >>, FALSE) IN
    IF in.fault = "dest" \/ FunctionKeys(api, functionName) = {} THEN s0
    ELSE
    LET f == api.functions[CHOOSE k \in FunctionKeys(api, functionName) : TRUE] IN
    IF f.DestinationConfig = << >> THEN s0
    ELSE
    LET dc == f.DestinationConfig[1]
        s1 == IF dc.OnSuccess = << >> THEN s0
              ELSE Emit(s0, ArnNode(dc.OnSuccess[1], "EventDestination",
                                    extractNameFromARN(dc.OnSuccess[1])),
                        Edge(lambdaNode.ID, dc.OnSuccess[1], "sends-success-to",
                             "GetFunctionEventInvokeConfig"))
        s2 == IF dc.OnFailure = << >> THEN s1
              ELSE Emit(s1, ArnNode(dc.OnFailure[1], "EventDestination",
                                    extractNameFromARN(dc.OnFailure[1])),
                        Edge(lambdaNode.ID, dc.OnFailure[1], "sends-failures-to",
                             "GetFunctionEventInvokeConfig"))
    IN s2

discoverLambda(node, gr, api, in) ==
    LET functionName == IF node.Name = EmptyStr THEN node.ARN ELSE node.Name
        output       == GetFunction(api, functionName, in)
    IN
    IF output.err THEN Failed(gr)
    ELSE
    LET config == output.Configuration[1]
        s0 == Result(gr, << >>, FALSE)
        s1 == IF config.Role = << >> THEN s0
              ELSE Emit(s0, ArnNode(config.Role[1], "IAMRole",
                                    extractRoleNameFromARN(config.Role[1])),
                        Edge(node.ID, config.Role[1], "uses-execution-role", "GetFunction"))
        s2 == IF config.VpcConfig = << >> THEN s1
              ELSE FoldLeft(LAMBDA acc, sn :
                               Emit(acc, IdNode(sn, "Subnet"),
                                    Edge(node.ID, sn, "runs-in-subnet", "GetFunction")),
                            FoldLeft(LAMBDA acc, sg :
                                        Emit(acc, IdNode(sg, "SecurityGroup"),
                                             Edge(node.ID, sg, "uses-security-group",
                                                  "GetFunction")),
                                     s1, Order(in, config.VpcConfig[1].SecurityGroupIds)),
                            Order(in, config.VpcConfig[1].SubnetIds))
        s3 == IF config.DeadLetterConfig = << >> THEN s2
              ELSE Emit(s2, ArnNode(config.DeadLetterConfig[1], "DLQ",
                                    extractNameFromARN(config.DeadLetterConfig[1])),
                        Edge(node.ID, config.DeadLetterConfig[1], "sends-failures-to",
                             "GetFunction"))
        s4 == Absorb(s3, discoverEventSourceMappings(node.ARN, node, s3.g, api, in))
        s5 == Absorb(s4, discoverFunctionDestinations(functionName, node, s4.g, api, in))
    IN s5

(***************************************************************************)
(* Load balancers, target groups, Route 53                                 *)
(***************************************************************************)
\* a DNS name is a host and whether it is written with the trailing dot
TrimDot(dns) == [dns EXCEPT !.dot = FALSE]

WithDot(dns) == [dns EXCEPT !.dot = TRUE]

discoverTargetGroup(tgARN, sourceNode, gr, api, in) ==
    IF HasNode(gr, tgARN)
    THEN Result(AddEdge(gr, Edge(sourceNode.ID, tgARN, "forwards-to", "DescribeTargetGroups")),
                << tgARN >>, FALSE)
    ELSE IF in.fault = "tg" \/ tgARN \notin DOMAIN api.targetGroups THEN Failed(gr)
    ELSE
    LET tg == api.targetGroups[tgARN]
        s1 == Emit(Result(gr, << >>, FALSE),
                   ArnNode(tg.TargetGroupArn, "TargetGroup", tg.TargetGroupName),
                   Edge(sourceNode.ID, tg.TargetGroupArn, "forwards-to", "DescribeTargetGroups"))
        EmitTarget(acc, id) ==
            LET e == Edge(tg.TargetGroupArn, id, "routes-to-target", "DescribeTargetHealth") IN
            CASE tg.TargetType = "instance" -> Emit(acc, IdNode(id, "EC2Instance"), e)
              [] tg.TargetType = "ip"       -> Emit(acc, IdNode(id, "IPTarget"), e)
              [] tg.TargetType = "lambda"   ->
                    Emit(acc, ArnNode(id, "Lambda", extractLambdaNameFromARN(id)), e)
              [] OTHER                      -> acc
    IN IF in.fault = "health" THEN s1
       ELSE FoldLeft(EmitTarget, s1, Order(in, tg.Targets))

\* the forward actions of a listener or of a rule
ForwardActions(acc, actions, listenerNode, api, in) ==
    FoldLeft(LAMBDA a, tgArn :
                Absorb(a, discoverTargetGroup(tgArn, listenerNode, a.g, api, in)),
             acc, actions)

RECURSIVE RulePages(_, _, _, _, _, _)
RulePages(acc, pages, k, listenerNode, api, in) ==
    IF k > Len(pages) THEN acc
    ELSE IF in.fault = "rules" /\ in.page = k THEN Failed(acc.g)
    ELSE RulePages(
             FoldLeft(LAMBDA a, rule :
                         IF rule.IsDefault THEN a
                         ELSE ForwardActions(a, rule.Actions, listenerNode, api, in),
                      acc, Order(in, pages[k])),
             pages, k + 1, listenerNode, api, in)

discoverListenerRules(listener, listenerNode, gr, api, in) ==
    RulePages(Result(gr, << >>, FALSE), listener.RulePages, 1, listenerNode, api, in)

listenerToNode(listener) == ArnNode(listener.ListenerArn, "Listener", listener.Name)

EmitListener(acc, listener, lbNode, api, in) ==
    LET listenerNode == listenerToNode(listener)
        a == Emit(acc, listenerNode,
                  Edge(lbNode.ID, listenerNode.ID, "has-listener", "DescribeListeners"))
        b == ForwardActions(a, listener.DefaultActions, listenerNode, api, in)
    IN Absorb(b, discoverListenerRules(listener, listenerNode, b.g, api, in))

RECURSIVE ListenerPages(_, _, _, _, _, _)
ListenerPages(acc, pages, k, lbNode, api, in) ==
    IF k > Len(pages) THEN acc
    ELSE IF in.fault = "listeners" /\ in.page = k THEN Failed(acc.g)
    ELSE ListenerPages(
             FoldLeft(LAMBDA a, l : EmitListener(a, l, lbNode, api, in), acc,
                      Order(in, pages[k])),
             pages, k + 1, lbNode, api, in)

discoverListeners(lbNode, gr, api, in) ==
    IF lbNode.ARN \notin DOMAIN api.loadBalancers THEN Failed(gr)
    ELSE ListenerPages(Result(gr, << >>, FALSE),
                       api.loadBalancers[lbNode.ARN].ListenerPages, 1, lbNode, api, in)

findAliasRecordsInZone(zone, targetDNS, in) ==
    IF in.fault = "records" THEN [err |-> TRUE, records |-> << >>]
    ELSE [err |-> FALSE,
          records |-> SelectSeq(Order(in, zone.ResourceRecordSets),
                                LAMBDA r : /\ r.AliasTarget # << >>
                                           /\ \/ TrimDot(r.AliasTarget[1]) = TrimDot(targetDNS)
                                              \/ r.AliasTarget[1] = WithDot(TrimDot(targetDNS)))]

route53RecordToNode(record, zone) ==
    Node(<< <<"route53">> >> \o zone.Id \o << <<record.Name.host>>, <<record.Type>> >>,
         "Route53Record", EmptyStr, Str(record.Name.host), << >>)

discoverRoute53Aliases(dnsName, targetNode, gr, api, in) ==
    IF in.fault = "zones" THEN Failed(gr)
    ELSE FoldLeft(LAMBDA acc, zone :
                     LET found == findAliasRecordsInZone(zone, TrimDot(dnsName), in) IN
                     IF found.err THEN acc
                     ELSE FoldLeft(LAMBDA a, record :
                                      LET recordNode == route53RecordToNode(record, zone) IN
                                      Emit(a, recordNode,
                                           Edge(recordNode.ID, targetNode.ID, "aliases-to",
                                                "ListResourceRecordSets")),
                                   acc, found.records),
                  Result(gr, << >>, FALSE), api.hostedZones)

discoverLoadBalancer(node, gr, api, in) ==
    IF in.fault = "describe" \/ node.ARN \notin DOMAIN api.loadBalancers THEN Failed(gr)
    ELSE
    LET lb == api.loadBalancers[node.ARN]
        s0 == Result(gr, << >>, FALSE)
        s1 == FoldLeft(LAMBDA acc, sg :
                          Emit(acc, IdNode(sg, "SecurityGroup"),
                               Edge(node.ID, sg, "uses-security-group", "DescribeLoadBalancers")),
                       s0, Order(in, lb.SecurityGroups))
        s2 == FoldLeft(LAMBDA acc, sn :
                          Emit(acc, IdNode(sn, "Subnet"),
                               Edge(node.ID, sn, "uses-subnet", "DescribeLoadBalancers")),
                       s1, Order(in, lb.AvailabilityZones))
        s3 == Absorb(s2, discoverListeners(node, s2.g, api, in))
        s4 == IF lb.DNSName = << >> THEN s3
              ELSE Absorb(s3, discoverRoute53Aliases(lb.DNSName[1], node, s3.g, api, in))
    IN s4

(***************************************************************************)
(* ECS                                                                     *)
(***************************************************************************)
taskDefinitionToNode(td) == ArnNode(td.TaskDefinitionArn, "TaskDefinition", td.Name)

scalingPolicyToNode(policy) == ArnNode(policy.PolicyARN, "ScalingPolicy", policy.PolicyName)

discoverTaskDefinition(taskDefARN, sourceNode, gr, api, in) ==
    IF HasNode(gr, taskDefARN)
    THEN Result(AddEdge(gr, Edge(sourceNode.ID, taskDefARN, "uses-task-definition",
                                 "DescribeServices")),
                << taskDefARN >>, FALSE)
    ELSE IF in.fault = "taskdef" \/ taskDefARN \notin DOMAIN api.taskDefinitions
    THEN Failed(gr)
    ELSE
    LET td     == api.taskDefinitions[taskDefARN]
        tdNode == taskDefinitionToNode(td)
        s1 == Emit(Result(gr, << >>, FALSE), tdNode,
                   Edge(sourceNode.ID, tdNode.ID, "uses-task-definition", "DescribeServices"))
        s2 == IF td.TaskRoleArn = << >> THEN s1
              ELSE Emit(s1, ArnNode(td.TaskRoleArn[1], "IAMRole",
                                    extractRoleNameFromARN(td.TaskRoleArn[1])),
                        Edge(tdNode.ID, td.TaskRoleArn[1], "uses-task-role",
                             "DescribeTaskDefinition"))
        s3 == IF td.ExecutionRoleArn = << >> THEN s2
              ELSE Emit(s2, ArnNode(td.ExecutionRoleArn[1], "IAMRole",
                                    extractRoleNameFromARN(td.ExecutionRoleArn[1])),
                        Edge(tdNode.ID, td.ExecutionRoleArn[1], "uses-execution-role",
                             "DescribeTaskDefinition"))
    IN s3

discoverECSScalingPolicies(svc, serviceNode, gr, in) ==
    IF in.fault = "targets" THEN Failed(gr)
    ELSE IF ~svc.ScalableTarget THEN Result(gr, << >>, FALSE)
    ELSE IF in.fault = "policies" THEN Failed(gr)
    ELSE FoldLeft(LAMBDA acc, policy :
                     LET policyNode == scalingPolicyToNode(policy) IN
                     Emit(acc, policyNode,
                          Edge(serviceNode.ID, policyNode.ID, "has-scaling-policy",
                               "DescribeScalingPolicies")),
                  Result(gr, << >>, FALSE), Order(in, svc.ScalingPolicies))

discoverECSService(node, gr, api, in) ==
    LET parts   == SplitSlash(node.ARN)
        ok      == node.cluster # << >> \/ Len(parts) >= 3
        cluster == IF node.cluster # << >> THEN node.cluster[1] ELSE parts[2]
    IN
    IF ~ok THEN Failed(gr)
    ELSE IF in.fault = "describe" THEN Failed(gr)
    ELSE IF node.ARN \notin DOMAIN api.services \/ api.services[node.ARN].Cluster # cluster
    THEN Failed(gr)
    ELSE
    LET svc == api.services[node.ARN]
        s1 == Emit(Result(gr, << >>, FALSE), IdNode(cluster, "ECSCluster"),
                   Edge(node.ID, cluster, "runs-in", "DescribeServices"))
        s2 == IF svc.TaskDefinition = << >> THEN s1
              ELSE Absorb(s1, discoverTaskDefinition(svc.TaskDefinition[1], node, s1.g, api, in))
        s3 == FoldLeft(LAMBDA acc, tgArn :
                          LET e == Edge(node.ID, tgArn, "registers-with", "DescribeServices") IN
                          IF HasNode(acc.g, tgArn)
                          THEN Result(AddEdge(acc.g, e), Append(acc.neighbors, tgArn), acc.err)
                          ELSE Emit(acc, ArnNode(tgArn, "TargetGroup",
                                                 extractNameFromARN(tgArn)), e),
                       s2, Order(in, svc.LoadBalancers))
        s4 == IF svc.AwsvpcConfiguration = << >> THEN s3
              ELSE FoldLeft(LAMBDA acc, sn :
                               Emit(acc, IdNode(sn, "Subnet"),
                                    Edge(node.ID, sn, "runs-in-subnet", "DescribeServices")),
                            FoldLeft(LAMBDA acc, sg :
                                        Emit(acc, IdNode(sg, "SecurityGroup"),
                                             Edge(node.ID, sg, "uses-security-group",
                                                  "DescribeServices")),
                                     s3, Order(in, svc.AwsvpcConfiguration[1].SecurityGroups)),
                            Order(in, svc.AwsvpcConfiguration[1].Subnets))
        s5 == Absorb(s4, discoverECSScalingPolicies(svc, node, s4.g, in))
    IN s5

(***************************************************************************)
(* Resource identification                                                 *)
(***************************************************************************)
Identified(node) == [node |-> node, err |-> FALSE]

NotIdentified == [node |-> NilNode, err |-> TRUE]

parseARN(arn) ==
    IF Len(arn) < 6 THEN NotIdentified
    ELSE
    LET service  == arn[3]
        resource == SubSeq(arn, 6, Len(arn))
        parts    == SplitSlash(resource)
        node     == Node(arn, "", arn, EmptyStr, << >>)
    IN
    CASE service = <<"elasticloadbalancing">> ->
            Identified([node EXCEPT
                !.Type = "LoadBalancer",
                !.Name = IF ContainsSlash(resource) /\ Len(parts) >= 2
                         THEN parts[Len(parts) - 1] ELSE EmptyStr])
      [] service = <<"ecs">> ->
            IF HasSlashPrefix(resource, "service")
            THEN Identified([node EXCEPT
                    !.Type = "ECSService",
                    !.Name = IF Len(parts) >= 3 THEN Last(parts) ELSE EmptyStr,
                    !.cluster = IF Len(parts) >= 3 THEN << parts[2] >> ELSE << >>])
            ELSE Identified(node)
      [] service = <<"lambda">> ->
            Identified([node EXCEPT
                !.Type = "Lambda",
                !.Name = IF HasColonPrefix(resource, "function")
                         THEN TrimColonPrefix(resource) ELSE EmptyStr])
      [] service = <<"rds">> ->
            IF HasColonPrefix(resource, "db")
            THEN Identified([node EXCEPT !.Type = "RDSInstance",
                                         !.Name = TrimColonPrefix(resource)])
            ELSE IF HasColonPrefix(resource, "cluster")
            THEN Identified([node EXCEPT !.Type = "RDSCluster",
                                         !.Name = TrimColonPrefix(resource)])
            ELSE Identified(node)
      [] OTHER -> NotIdentified

loadBalancerToNode(lb) ==
    Node(lb.LoadBalancerArn, "LoadBalancer", lb.LoadBalancerArn, lb.LoadBalancerName, << >>)

ecsServiceToNode(svc, cluster) ==
    Node(svc.ServiceArn, "ECSService", svc.ServiceArn, svc.ServiceName, << cluster >>)

lambdaFunctionToNode(config) ==
    Node(config.FunctionArn, "Lambda", config.FunctionArn, config.FunctionName, << >>)

rdsInstanceToNode(instance) ==
    Node(instance.DBInstanceArn, ResourceTypeRDSInstance, instance.DBInstanceArn,
         instance.DBInstanceIdentifier, << >>)

resolveLoadBalancerByName(name, api, in) ==
    LET found == {a \in DOMAIN api.loadBalancers : api.loadBalancers[a].LoadBalancerName = name}
    IN IF in.fault = "lbs" \/ found = {} THEN NotIdentified
       ELSE Identified(loadBalancerToNode(api.loadBalancers[CHOOSE a \in found : TRUE]))

resolveECSService(cluster, service, api, in) ==
    LET found == {a \in DOMAIN api.services :
                     api.services[a].ServiceName = service /\ api.services[a].Cluster = cluster}
    IN IF in.fault = "ecs" \/ found = {} THEN NotIdentified
       ELSE Identified(ecsServiceToNode(api.services[CHOOSE a \in found : TRUE], cluster))

resolveLambdaFunction(name, api, in) ==
    LET output == GetFunction(api, name, [in EXCEPT !.fault = "none"])
    IN IF in.fault = "lambda" \/ output.err THEN NotIdentified
       ELSE Identified(lambdaFunctionToNode(output.Configuration[1]))

resolveRDSInstance(identifier, api, in) ==
    LET output == DescribeDBInstances(api, identifier, [in EXCEPT !.fault = "none"])
    IN IF in.fault = "rds" \/ output.err \/ Len(output.DBInstances) = 0 THEN NotIdentified
       ELSE Identified(rdsInstanceToNode(output.DBInstances[1]))

\* the outcome of identification together with the lookups it attempted, each
\* with the name of the resolver and whether it succeeded
Looked(r, lookups) == [node |-> r.node, err |-> r.err, lookups |-> lookups]

Lookup(fn, r) == [fn |-> fn, ok |-> ~r.err]

\* a buggy order of the lookups: the function name before the load balancer
identifyResourceLambdaFirst(resourceID, api, in) ==
    IF IsArnPrefixed(resourceID) THEN Looked(parseARN(resourceID), << >>)
    ELSE
    LET fn  == resolveLambdaFunction(resourceID, api, in)
        lb  == resolveLoadBalancerByName(resourceID, api, in)
        rds == resolveRDSInstance(resourceID, api, in)
        l1  == << Lookup("resolveLambdaFunction", fn) >>
        l2  == Append(l1, Lookup("resolveLoadBalancerByName", lb))
        l3  == Append(l2, Lookup("resolveRDSInstance", rds))
    IN IF ~fn.err THEN Looked(fn, l1)
       ELSE IF ~lb.err THEN Looked(lb, l2)
       ELSE Looked(rds, l3)

identifyResource(resourceID, api, in) ==
    IF IsArnPrefixed(resourceID) THEN Looked(parseARN(resourceID), << >>)
    ELSE
    LET lb     == resolveLoadBalancerByName(resourceID, api, in)
        parts  == SplitSlash(resourceID)
        tryEcs == ContainsSlash(resourceID) /\ Len(parts) = 2
        ecs    == IF tryEcs
                  THEN resolveECSService(parts[1], parts[2], api, in)
                  ELSE NotIdentified
        fn     == resolveLambdaFunction(resourceID, api, in)
        rds    == resolveRDSInstance(resourceID, api, in)
        l1     == << Lookup("resolveLoadBalancerByName", lb) >>
        l2     == IF tryEcs THEN Append(l1, Lookup("resolveECSService", ecs)) ELSE l1
        l3     == Append(l2, Lookup("resolveLambdaFunction", fn))
        l4     == Append(l3, Lookup("resolveRDSInstance", rds))
    IN IF ~lb.err THEN Looked(lb, l1)
       ELSE IF ~ecs.err THEN Looked(ecs, l2)
       ELSE IF ~fn.err THEN Looked(fn, l3)
       ELSE IF ~rds.err THEN Looked(rds, l4)
       ELSE Looked(NotIdentified, l4)

\* a buggy dispatch that reports an error for a type without an expander
discoverNodeDefaultFails(node, gr, opts, api, in) ==
    CASE node.Type = "LoadBalancer" -> discoverLoadBalancer(node, gr, api, in)
      [] node.Type = "ECSService"   -> discoverECSService(node, gr, api, in)
      [] node.Type = "Lambda"       -> discoverLambda(node, gr, api, in)
      [] node.Type \in {"RDSInstance", "RDSCluster"} -> discoverRDS(node, gr, opts, api, in)
      [] OTHER                      -> Result(gr, << node.ID >>, TRUE)

\* the dispatch on node.Type
discoverNode(node, gr, opts, api, in) ==
    CASE node.Type = "LoadBalancer" -> discoverLoadBalancer(node, gr, api, in)
      [] node.Type = "ECSService"   -> discoverECSService(node, gr, api, in)
      [] node.Type = "Lambda"       -> discoverLambda(node, gr, api, in)
      [] node.Type \in {"RDSInstance", "RDSCluster"} -> discoverRDS(node, gr, opts, api, in)
      [] OTHER                      -> Result(gr, << >>, FALSE)

(***************************************************************************)
(* Discoverer.Discover: the BFS orchestration, one operator per step.      *)
(* A run's record d holds the locals of Discover (g, visited, queue,       *)
(* currentDepth, levelSize, i), its position pc, its return value err, and *)
(* the history of the run (expansions, pushes, dequeued).                  *)
(***************************************************************************)
DefaultMaxNodes == 250

\* a buggy loop condition that runs one level too many
ShouldContinueOneMore(q, depth, opts) == Len(q) > 0 /\ depth <= opts.MaxDepth + 1

\* the outer loop's condition
ShouldContinue(q, depth, opts) == Len(q) > 0 /\ depth <= opts.MaxDepth

\* a buggy inner loop that runs one iteration too many
InnerLoopOffByOne(k, size) == k <= size

\* the inner loop's condition
InnerLoopContinues(k, size) == k < size

\* the inner loop's i++
NextIndex(k) == k + 1

\* a buggy ceiling test that lets the run go on at exactly MaxNodes
CapReachedStrict(gr, opts) == NodeCount(gr) > opts.MaxNodes

\* the node-count ceiling, tested before each expansion
CapReached(gr, opts) == NodeCount(gr) >= opts.MaxNodes

\* a buggy enqueue that does not consult visited
RECURSIVE EnqueueAll(_, _, _)
EnqueueAll(vis, q, neighbors) ==
    IF neighbors = << >> THEN [visited |-> vis, queue |-> q, pushed |-> << >>]
    ELSE LET r == EnqueueAll(vis \cup {Head(neighbors)}, Append(q, Head(neighbors)),
                             Tail(neighbors))
         IN [r EXCEPT !.pushed = << Head(neighbors) >> \o @]

\* a buggy enqueue that forgets to mark the ids it queues as visited
RECURSIVE EnqueueUnmarked(_, _, _)
EnqueueUnmarked(vis, q, neighbors) ==
    IF neighbors = << >> THEN [visited |-> vis, queue |-> q, pushed |-> << >>]
    ELSE LET neighborID == Head(neighbors) IN
         IF neighborID \notin vis
         THEN LET r == EnqueueUnmarked(vis, Append(q, neighborID), Tail(neighbors))
              IN [r EXCEPT !.pushed = << neighborID >> \o @]
         ELSE EnqueueUnmarked(vis, q, Tail(neighbors))

\* "Add new neighbors to queue"
RECURSIVE Enqueue(_, _, _)
Enqueue(vis, q, neighbors) ==
    IF neighbors = << >> THEN [visited |-> vis, queue |-> q, pushed |-> << >>]
    ELSE LET neighborID == Head(neighbors) IN
         IF neighborID \notin vis
         THEN LET r == Enqueue(vis \cup {neighborID}, Append(q, neighborID), Tail(neighbors))
              IN [r EXCEPT !.pushed = << neighborID >> \o @]
         ELSE Enqueue(vis, q, Tail(neighbors))

\* a buggy dequeue that takes the newest id (a stack, not a queue)
DequeueLast(q) == [nodeID |-> q[Len(q)], queue |-> SubSeq(q, 1, Len(q) - 1)]

\* nodeID := queue[0]; queue = queue[1:]
Dequeue(q) == [nodeID |-> q[1], queue |-> Tail(q)]

\* a buggy wrapping that loses the identification error
IdentifyErrorLost(identErr) == FALSE

\* the return value when identification fails
IdentifyError(identErr) == identErr

Start(gr) ==
    [g |-> gr, visited |-> {}, queue |-> << >>, currentDepth |-> 0, levelSize |-> 0,
     i |-> 0, pc |-> "start", err |-> FALSE,
     expansions |-> << >>, pushes |-> << >>, dequeued |-> << >>, lookups |-> << >>]

IdentifyStep(d, resourceID, api, in) ==
    LET r == identifyResource(resourceID, api, in) IN
    IF r.err
    THEN [d EXCEPT !.pc = "done", !.err = IdentifyError(r.err), !.lookups = r.lookups]
    ELSE [d EXCEPT !.g = AddNode(d.g, r.node),
                   !.lookups = r.lookups,
                   !.visited = {r.node.ID},
                   !.queue = << r.node.ID >>,
                   !.currentDepth = 0,
                   !.pushes = << [id |-> r.node.ID, depth |-> 0] >>,
                   !.pc = "loop"]

LevelBeginStep(d, opts) ==
    IF ShouldContinue(d.queue, d.currentDepth, opts)
    THEN [d EXCEPT !.levelSize = Len(d.queue), !.i = 0, !.pc = "level"]
    ELSE [d EXCEPT !.pc = "done"]

\* a buggy iteration that returns the expander's error to the caller
ProcessNodeStepAbort(d, opts, api, in) ==
    IF CapReached(d.g, opts) THEN [d EXCEPT !.pc = "done"]
    ELSE IF Len(d.queue) = 0 THEN [d EXCEPT !.pc = "panic"]
    ELSE
    LET nodeID == Dequeue(d.queue).nodeID
        rest   == Dequeue(d.queue).queue
        got    == GetNode(d.g, nodeID)
        deq    == Append(d.dequeued, [id |-> nodeID, depth |-> d.currentDepth])
    IN
    IF ~got.ok
    THEN [d EXCEPT !.queue = rest, !.i = NextIndex(d.i), !.dequeued = deq]
    ELSE
    LET res == discoverNode(got.node, d.g, opts, api, in)
        enq == Enqueue(d.visited, rest, res.neighbors)
    IN IF res.err THEN [d EXCEPT !.g = res.g, !.pc = "done", !.err = TRUE] ELSE
       [d EXCEPT !.g = res.g,
                 !.visited = enq.visited,
                 !.queue = enq.queue,
                 !.i = NextIndex(d.i),
                 !.dequeued = deq,
                 !.pushes = d.pushes \o [k \in 1..Len(enq.pushed) |->
                                 [id |-> enq.pushed[k], depth |-> d.currentDepth + 1]],
                 !.expansions = Append(d.expansions,
                     [id |-> nodeID, depth |-> d.currentDepth, type |-> got.node.Type,
                      neighbors |-> res.neighbors, err |-> res.err])]

\* one iteration of the inner loop
ProcessNodeStep(d, opts, api, in) ==
    IF CapReached(d.g, opts) THEN [d EXCEPT !.pc = "done"]
    ELSE IF Len(d.queue) = 0 THEN [d EXCEPT !.pc = "panic"]
    ELSE
    LET nodeID == Dequeue(d.queue).nodeID
        rest   == Dequeue(d.queue).queue
        got    == GetNode(d.g, nodeID)
        deq    == Append(d.dequeued, [id |-> nodeID, depth |-> d.currentDepth])
    IN
    IF ~got.ok
    THEN [d EXCEPT !.queue = rest, !.i = NextIndex(d.i), !.dequeued = deq]
    ELSE
    LET res == discoverNode(got.node, d.g, opts, api, in)
        enq == Enqueue(d.visited, rest, res.neighbors)
    IN [d EXCEPT !.g = res.g,
                 !.visited = enq.visited,
                 !.queue = enq.queue,
                 !.i = NextIndex(d.i),
                 !.dequeued = deq,
                 !.pushes = d.pushes \o [k \in 1..Len(enq.pushed) |->
                                 [id |-> enq.pushed[k], depth |-> d.currentDepth + 1]],
                 !.expansions = Append(d.expansions,
                     [id |-> nodeID, depth |-> d.currentDepth, type |-> got.node.Type,
                      neighbors |-> res.neighbors, err |-> res.err])]

\* a buggy end of level that forgets currentDepth++
LevelEndStepNoIncrement(d) == [d EXCEPT !.pc = "loop"]

LevelEndStep(d) == [d EXCEPT !.currentDepth = d.currentDepth + 1, !.pc = "loop"]

(***************************************************************************)
(* The accounts and the command lines explored.                            *)
(***************************************************************************)
Sg1 == Str("sg-1")
Sn1 == Str("subnet-1")
Sn2 == Str("subnet-2")
Role1 == Arn("iam", << <<"role", "app-role">> >>)
Role2 == Arn("iam", << <<"role", "exec-role">> >>)
Queue1 == Arn("sqs", << <<"q1">> >>)
Queue2 == Arn("sqs", << <<"q2">> >>)
Stream1 == Arn("kinesis", << <<"stream", "s1">> >>)
Stream2 == Arn("kinesis", << <<"stream", "s2">> >>)
Fn1Arn == Arn("lambda", << <<"function">>, <<"f1">> >>)
Fn2Arn == Arn("lambda", << <<"function">>, <<"f2">> >>)
Lb1Arn == Arn("elasticloadbalancing", << <<"loadbalancer", "app", "lb1", "h1">> >>)
Listener1Arn == Arn("elasticloadbalancing", << <<"listener", "app", "lb1", "h1", "l1">> >>)
Tg1Arn == Arn("elasticloadbalancing", << <<"targetgroup", "tg1", "h2">> >>)
Tg2Arn == Arn("elasticloadbalancing", << <<"targetgroup", "tg2", "h3">> >>)
Svc1Arn == Arn("ecs", << <<"service", "cl1", "svc1">> >>)
SvcOldArn == Arn("ecs", << <<"service", "svc1">> >>)
EcsClusterArn == Arn("ecs", << <<"cluster", "cl1">> >>)
Td1Arn == Arn("ecs", << <<"task-definition", "td1">>, <<"7">> >>)
Policy1Arn == Arn("autoscaling", << <<"scalingPolicy">>, <<"p1">> >>)
BucketArn == Arn("s3", << <<"bucket", "my-bucket">> >>)
ShortArn == << <<"arn">>, <<"aws">>, <<"rds">> >>
FiveSegmentArn == << <<"arn">>, <<"aws">>, <<"rds">>, <<"r1">>, <<"a1">> >>
DbArn(k) == Arn("rds", << <<"db">>, <<k>> >>)
AuroraArn == Arn("rds", << <<"cluster">>, <<"aurora1">> >>)
RdsOtherArn == Arn("rds", << <<"snapshot">>, <<"snap1">> >>)
LbDns == [host |-> "lb1.elb.example", dot |-> FALSE]

DbNames == << "db1", "db2", "db3", "db4" >>

EmptyAccount ==
    [dbInstances |-> [k \in {} |-> 0], dbClusters |-> [k \in {} |-> 0],
     functions |-> [k \in {} |-> 0], loadBalancers |-> [k \in {} |-> 0],
     targetGroups |-> [k \in {} |-> 0], services |-> [k \in {} |-> 0],
     taskDefinitions |-> [k \in {} |-> 0], hostedZones |-> << >>]

\* an Aurora cluster with n member instances (n = 0: one standalone instance);
\* rich: the instances and the cluster have a subnet group, a security group
\* and parameter groups
DbInstance(k, n, rich) ==
    [DBInstanceIdentifier |-> Str(k),
     DBInstanceArn        |-> DbArn(k),
     DBSubnetGroup        |-> IF rich
                              THEN << [DBSubnetGroupName |-> Str("dbsubnets"),
                                       Subnets |-> << Sn1, Sn2 >>] >>
                              ELSE << >>,
     VpcSecurityGroups    |-> IF rich THEN << Sg1 >> ELSE << >>,
     DBParameterGroups    |-> IF rich THEN << Str("pg1") >> ELSE << >>,
     DBClusterIdentifier  |-> IF n > 0 THEN << Str("aurora1") >> ELSE << >>,
     Endpoint             |-> << Str(k) >>]

RdsAccount(n, rich) ==
    [EmptyAccount EXCEPT
        !.dbInstances =
            [id \in {Str(DbNames[k]) : k \in 1..(IF n = 0 THEN 1 ELSE n)} |->
                DbInstance(id[1][1], n, rich)],
        !.dbClusters =
            IF n = 0 THEN [k \in {} |-> 0]
            ELSE [id \in {Str("aurora1")} |->
                    [DBClusterIdentifier     |-> Str("aurora1"),
                     DBClusterArn            |-> AuroraArn,
                     DBClusterMembers        |-> [k \in 1..n |-> Str(DbNames[k])],
                     DBSubnetGroup           |-> IF rich THEN << Str("dbsubnets") >> ELSE << >>,
                     VpcSecurityGroups       |-> IF rich THEN << Sg1 >> ELSE << >>,
                     DBClusterParameterGroup |-> IF rich THEN << Str("cpg1") >> ELSE << >>,
                     Endpoint                |-> << Str("aurora1") >>]]]

\* a load balancer that forwards to two functions and to an instance, the
\* ECS service registered behind it, and what the two functions use
WebAccount ==
    [EmptyAccount EXCEPT
        !.functions =
            [id \in {Str("f1"), Str("f2")} |->
                IF id = Str("f1")
                THEN [FunctionName |-> Str("f1"), FunctionArn |-> Fn1Arn,
                      Role |-> << Role1 >>,
                      VpcConfig |-> << [SecurityGroupIds |-> << Sg1 >>,
                                        SubnetIds |-> << Sn1 >>] >>,
                      DeadLetterConfig |-> << Queue1 >>,
                      EventSourcePages |->
                          << << [EventSourceArn |-> << Queue1 >>, OnFailure |-> << Queue2 >>] >>,
                             << [EventSourceArn |-> << Stream1 >>, OnFailure |-> << >>] >> >>,
                      DestinationConfig |-> << [OnSuccess |-> << Fn2Arn >>,
                                                OnFailure |-> << Queue2 >>] >>]
                ELSE [FunctionName |-> Str("f2"), FunctionArn |-> Fn2Arn,
                      Role |-> << Role2 >>,
                      VpcConfig |-> << >>,
                      DeadLetterConfig |-> << >>,
                      EventSourcePages |->
                          << << [EventSourceArn |-> << Stream2 >>, OnFailure |-> << >>] >>,
                             << [EventSourceArn |-> << Stream1 >>, OnFailure |-> << >>] >> >>,
                      DestinationConfig |-> << >>]],
        !.loadBalancers =
            [id \in {Lb1Arn} |->
                [LoadBalancerArn |-> Lb1Arn, LoadBalancerName |-> Str("lb1"),
                 SecurityGroups |-> << Sg1 >>,
                 AvailabilityZones |-> << Sn1, Sn2 >>,
                 DNSName |-> << LbDns >>,
                 ListenerPages |->
                     << << [ListenerArn |-> Listener1Arn, Name |-> Str("HTTPS:443"),
                            DefaultActions |-> << Tg1Arn >>,
                            RulePages |->
                                << << [IsDefault |-> TRUE, Actions |-> << Tg1Arn >>],
                                      [IsDefault |-> FALSE, Actions |-> << Tg2Arn >>] >> >>] >> >>]],
        !.targetGroups =
            [id \in {Tg1Arn, Tg2Arn} |->
                IF id = Tg1Arn
                THEN [TargetGroupArn |-> Tg1Arn, TargetGroupName |-> Str("tg1"),
                      TargetType |-> "lambda", Targets |-> << Fn1Arn, Fn2Arn >>]
                ELSE [TargetGroupArn |-> Tg2Arn, TargetGroupName |-> Str("tg2"),
                      TargetType |-> "instance", Targets |-> << Str("i-1") >>]],
        !.services =
            [id \in {Svc1Arn} |->
                [ServiceArn |-> Svc1Arn, ServiceName |-> Str("svc1"), Cluster |-> Str("cl1"),
                 TaskDefinition |-> << Td1Arn >>,
                 LoadBalancers |-> << Tg2Arn >>,
                 AwsvpcConfiguration |-> << [SecurityGroups |-> << Sg1 >>,
                                             Subnets |-> << Sn1 >>] >>,
                 ScalableTarget |-> TRUE,
                 ScalingPolicies |-> << [PolicyARN |-> Policy1Arn,
                                         PolicyName |-> Str("p1")] >>]],
        !.taskDefinitions =
            [id \in {Td1Arn} |->
                [TaskDefinitionArn |-> Td1Arn, Name |-> << <<"td1">>, <<"7">> >>,
                 TaskRoleArn |-> << Role1 >>, ExecutionRoleArn |-> << Role2 >>]],
        !.hostedZones =
            << [Id |-> << <<"", "hostedzone", "Z1">> >>,
                ResourceRecordSets |->
                    << [Name |-> [host |-> "www.example", dot |-> TRUE], Type |-> "A",
                        AliasTarget |-> << WithDot(LbDns) >>],
                       [Name |-> [host |-> "mail.example", dot |-> TRUE], Type |-> "MX",
                        AliasTarget |-> << >>] >>] >>]

Accounts ==
    {RdsAccount(n, rich) : n \in 0..MaxMembers, rich \in BOOLEAN} \cup {WebAccount}

\* what the user may type as the resource identifier
ResourceIDs ==
    { Lb1Arn, Svc1Arn, SvcOldArn, EcsClusterArn, Fn1Arn, Fn2Arn,
      DbArn("db1"), AuroraArn, RdsOtherArn, BucketArn, ShortArn, FiveSegmentArn,
      Str("lb1"), << <<"cl1", "svc1">> >>, << <<"cl1", "svc1", "x">> >>,
      Str("f1"), Str("db1"), Str("aurora1"),
      Str("nothing") }

OptionSets ==
    [MaxDepth   : 0..MaxDepthBound,
     MaxNodes   : (1..MaxNodesBound) \cup {DefaultMaxNodes},
     Heuristics : {<< >>, << "rds-endpoint" >>}]

\* what the environment decides at an API call
IdentifyInputs == [fault : {"none", "lbs", "ecs", "lambda", "rds"}, page : {1}, rev : {FALSE}]

ExpandInputs ==
    [fault : {"none", "describe", "tg", "health", "zones", "records", "taskdef",
              "targets", "policies", "dest"},
     page : {1}, rev : BOOLEAN]
    \cup [fault : {"listeners", "rules", "esm"}, page : 1..2, rev : BOOLEAN]

(***************************************************************************)
(* State                                                                   *)
(***************************************************************************)
VARIABLES
    resourceID,     \* the command line's resource identifier
    opts,           \* discover.Options
    api,            \* the account the AWS clients read
    g,              \* the graph passed to Discover
    visited, queue, currentDepth, levelSize, i,     \* Discover's locals
    pc,             \* where Discover is: start, loop, level, done, panic
    err,            \* Discover's return value: TRUE for a non-nil error
    expansions,     \* history: the discoverNode calls, in order
    pushes,         \* history: the ids put on the queue, in order
    dequeued,       \* history: the ids taken off the queue, in order
    calls,          \* history: the calls a direct client of the graph made
    mu,             \* Graph.mu, the sync.RWMutex of the graph
    goroutines,     \* where each goroutine calling the graph concurrently is
    lookups,        \* history: the resolvers identification tried, in order
    rendered,       \* what RenderTree wrote and returned
    levels          \* what a direct call of Graph.BFS returned

vars == << resourceID, opts, api, g, visited, queue, currentDepth, levelSize, i,
           pc, err, expansions, pushes, dequeued, calls, mu, goroutines, lookups,
           rendered, levels >>

Cur ==
    [g |-> g, visited |-> visited, queue |-> queue, currentDepth |-> currentDepth,
     levelSize |-> levelSize, i |-> i, pc |-> pc, err |-> err,
     expansions |-> expansions, pushes |-> pushes, dequeued |-> dequeued,
     lookups |-> lookups]

Becomes(d) ==
    /\ g' = d.g
    /\ visited' = d.visited
    /\ queue' = d.queue
    /\ currentDepth' = d.currentDepth
    /\ levelSize' = d.levelSize
    /\ i' = d.i
    /\ pc' = d.pc
    /\ err' = d.err
    /\ expansions' = d.expansions
    /\ pushes' = d.pushes
    /\ dequeued' = d.dequeued
    /\ lookups' = d.lookups
    /\ UNCHANGED << resourceID, opts, api, calls, mu, goroutines, rendered, levels >>

Init ==
    /\ resourceID \in ResourceIDs
    /\ opts \in OptionSets
    /\ api \in Accounts
    /\ g = New
    /\ visited = {}
    /\ queue = << >>
    /\ currentDepth = 0
    /\ levelSize = 0
    /\ i = 0
    /\ pc = "start"
    /\ err = FALSE
    /\ expansions = << >>
    /\ pushes = << >>
    /\ dequeued = << >>
    /\ calls = << >>
    /\ mu = Unlocked
    /\ goroutines = << >>
    /\ lookups = << >>
    /\ rendered = NotRendered
    /\ levels = << >>

\* Discover, up to the BFS loop
Identify ==
    /\ pc = "start"
    /\ \E in \in IdentifyInputs : Becomes(IdentifyStep(Cur, resourceID, api, in))

\* the outer loop's test and the level snapshot
LevelBegin ==
    /\ pc = "loop"
    /\ Becomes(LevelBeginStep(Cur, opts))

\* one iteration of the inner loop
ProcessNode ==
    /\ pc = "level"
    /\ InnerLoopContinues(i, levelSize)
    /\ \E in \in ExpandInputs : Becomes(ProcessNodeStep(Cur, opts, api, in))

\* the end of the inner loop
LevelEnd ==
    /\ pc = "level"
    /\ ~InnerLoopContinues(i, levelSize)
    /\ Becomes(LevelEndStep(Cur))

Next == Identify \/ LevelBegin \/ ProcessNode \/ LevelEnd

Spec == Init /\ [][Next]_vars

\* Discover is one sequential call: while it has neither returned nor
\* panicked it executes its next statement.  Every step of Next changes pc
\* or i, and Next has a step wherever pc is not "done" or "panic", so this
\* is weak fairness of Next, written with an action whose enabledness reads
\* only pc.
Advance ==
    /\ pc \notin {"done", "panic"}
    /\ pc' \in {"start", "loop", "level", "done", "panic"}
    /\ i' \in {0, i, i + 1}

FairSpec == Spec /\ WF_<<pc, i>>(Advance)

(***************************************************************************)
(* cmd: runGraph with the default format (tree).  After Discover has       *)
(* returned, runGraph returns the discovery error or renders the tree and  *)
(* returns RenderTree's error.                                             *)
(***************************************************************************)
RunGraphOutput ==
    /\ pc = "done"
    /\ pc' = "exit"
    /\ rendered' = IF err THEN rendered ELSE RenderTree(g, resourceID)
    /\ UNCHANGED << resourceID, opts, api, g, visited, queue, currentDepth, levelSize, i,
                    err, expansions, pushes, dequeued, calls, mu, goroutines, lookups,
                    levels >>

NextCli == Next \/ RunGraphOutput

CliSpec == Init /\ [][NextCli]_vars

(***************************************************************************)
(* Runs in which no API call fails: only the order of the API's lists,     *)
(* and with it the order of the ids within a BFS level, varies.            *)
(***************************************************************************)
NoFault == [fault |-> "none", page |-> 1, rev |-> FALSE]

OrderInputs == [fault : {"none"}, page : {1}, rev : BOOLEAN]

IdentifyNoFault ==
    /\ pc = "start"
    /\ Becomes(IdentifyStep(Cur, resourceID, api, NoFault))

ProcessNodeNoFault ==
    /\ pc = "level"
    /\ InnerLoopContinues(i, levelSize)
    /\ \E in \in OrderInputs : Becomes(ProcessNodeStep(Cur, opts, api, in))

NextOrder == IdentifyNoFault \/ LevelBegin \/ ProcessNodeNoFault \/ LevelEnd

OrderSpec == Init /\ [][NextOrder]_vars

\* Discover run to its return with the environment's choices fixed to `in`
RunStep(d, o, a, in) ==
    IF d.pc = "start" THEN IdentifyStep(d, resourceID, a, in)
    ELSE IF d.pc = "loop" THEN LevelBeginStep(d, o)
    ELSE IF d.pc = "level" /\ InnerLoopContinues(d.i, d.levelSize)
    THEN ProcessNodeStep(d, o, a, in)
    ELSE IF d.pc = "level" THEN LevelEndStep(d)
    ELSE d

RECURSIVE RunToEnd(_, _, _, _)
RunToEnd(d, o, a, in) ==
    IF d.pc \in {"done", "panic"} THEN d ELSE RunToEnd(RunStep(d, o, a, in), o, a, in)

(***************************************************************************)
(* A direct client of the graph package: a sequence of AddNode and         *)
(* AddEdge calls on a new graph.                                           *)
(***************************************************************************)
ClientNodes ==
    {Node(Str(id), t, EmptyStr, Str(n), << >>) :
        id \in {"node-1", "node-2"}, t \in {"LoadBalancer", "TargetGroup"}, n \in {"x", "y"}}

ClientEdges ==
    {Edge(Str(f), Str(t), "forward", "DescribeListeners") :
        f \in {"node-1", "node-2", "node-3"}, t \in {"node-1", "node-2", "node-3"}}

NilEdge == Edge(EmptyStr, EmptyStr, "", "")

InitGraph ==
    /\ resourceID = Str("nothing")
    /\ opts = [MaxDepth |-> 0, MaxNodes |-> 1, Heuristics |-> << >>]
    /\ api = EmptyAccount
    /\ g = New
    /\ visited = {}
    /\ queue = << >>
    /\ currentDepth = 0
    /\ levelSize = 0
    /\ i = 0
    /\ pc = "client"
    /\ err = FALSE
    /\ expansions = << >>
    /\ pushes = << >>
    /\ dequeued = << >>
    /\ calls = << >>
    /\ mu = Unlocked
    /\ goroutines = << >>
    /\ lookups = << >>
    /\ rendered = NotRendered
    /\ levels = << >>

CallAddNode ==
    /\ pc = "client"
    /\ Len(calls) < MaxCalls
    /\ \E n \in ClientNodes :
          /\ g' = AddNode(g, n)
          /\ calls' = Append(calls, [op |-> "AddNode", node |-> n, edge |-> NilEdge])
    /\ UNCHANGED << resourceID, opts, api, visited, queue, currentDepth, levelSize, i,
                    pc, err, expansions, pushes, dequeued, mu, goroutines, lookups,
                    rendered, levels >>

CallAddEdge ==
    /\ pc = "client"
    /\ Len(calls) < MaxCalls
    /\ \E e \in ClientEdges :
          /\ g' = AddEdge(g, e)
          /\ calls' = Append(calls, [op |-> "AddEdge", node |-> NilNode, edge |-> e])
    /\ UNCHANGED << resourceID, opts, api, visited, queue, currentDepth, levelSize, i,
                    pc, err, expansions, pushes, dequeued, mu, goroutines, lookups,
                    rendered, levels >>

NextGraph == CallAddNode \/ CallAddEdge

GraphSpec == InitGraph /\ [][NextGraph]_vars

(***************************************************************************)
(* Goroutines calling the graph concurrently (expanders running in         *)
(* parallel, a renderer reading).  A call is taken statement by statement: *)
(* mu.Lock / mu.RLock, the reads and the write of g.nodes and g.edges, and *)
(* the deferred Unlock / RUnlock.                                          *)
(***************************************************************************)
Goroutines == {"a", "b", "c"}

ConcNodes ==
    { Node(Str("node-1"), "LoadBalancer", EmptyStr, Str("x"), << >>),
      Node(Str("node-2"), "TargetGroup", EmptyStr, Str("y"), << >>) }

ConcEdges == { Edge(Str("node-1"), Str("node-2"), "forward", "DescribeListeners") }

Idle ==
    [pc |-> "idle", op |-> "", node |-> NilNode, edge |-> NilEdge,
     nodes |-> New.nodes, edges |-> New.edges, began |-> 0]

\* the calls begun so far, over all goroutines
RECURSIVE Began(_, _)
Began(gs, ps) ==
    IF ps = {} THEN 0
    ELSE LET p == CHOOSE q \in ps : TRUE IN gs[p].began + Began(gs, ps \ {p})

InitConc ==
    /\ resourceID = Str("nothing")
    /\ opts = [MaxDepth |-> 0, MaxNodes |-> 1, Heuristics |-> << >>]
    /\ api = EmptyAccount
    /\ g = New
    /\ visited = {}
    /\ queue = << >>
    /\ currentDepth = 0
    /\ levelSize = 0
    /\ i = 0
    /\ pc = "concurrent"
    /\ err = FALSE
    /\ expansions = << >>
    /\ pushes = << >>
    /\ dequeued = << >>
    /\ calls = << >>
    /\ mu = Unlocked
    /\ goroutines = [p \in Goroutines |-> Idle]
    /\ lookups = << >>
    /\ rendered = NotRendered
    /\ levels = << >>

ConcFrame ==
    UNCHANGED << resourceID, opts, api, visited, queue, currentDepth, levelSize, i,
                 pc, err, expansions, pushes, dequeued, lookups, rendered, levels >>

\* goroutine p calls AddNode, AddEdge or BFS
Call(p) ==
    /\ pc = "concurrent"
    /\ goroutines[p].pc = "idle"
    /\ Began(goroutines, Goroutines) < MaxCalls
    /\ \/ \E n \in ConcNodes :
             goroutines' = [goroutines EXCEPT ![p] =
                 [Idle EXCEPT !.pc = "Lock", !.op = "AddNode", !.node = n,
                              !.began = goroutines[p].began + 1]]
       \/ \E e \in ConcEdges :
             goroutines' = [goroutines EXCEPT ![p] =
                 [Idle EXCEPT !.pc = "Lock", !.op = "AddEdge", !.edge = e,
                              !.began = goroutines[p].began + 1]]
       \/ goroutines' = [goroutines EXCEPT ![p] =
                 [Idle EXCEPT !.pc = "RLock", !.op = "BFS",
                              !.began = goroutines[p].began + 1]]
    /\ UNCHANGED << g, calls, mu >>
    /\ ConcFrame

\* g.mu.Lock(), first half: the writers' mutex
LockWriters(p) ==
    /\ goroutines[p].pc = "Lock"
    /\ WriterReady(mu)
    /\ mu' = [mu EXCEPT !.w = p]
    /\ goroutines' = [goroutines EXCEPT ![p].pc = "LockWait"]
    /\ UNCHANGED << g, calls >>
    /\ ConcFrame

\* g.mu.Lock(), second half: wait for the readers
LockAcquired(p) ==
    /\ goroutines[p].pc = "LockWait"
    /\ ReadersGone(mu)
    /\ goroutines' = [goroutines EXCEPT ![p].pc = "load"]
    /\ UNCHANGED << g, calls, mu >>
    /\ ConcFrame

\* the write's read of the map / of the slice
Load(p) ==
    /\ goroutines[p].pc = "load"
    /\ goroutines' = [goroutines EXCEPT ![p].pc = "store",
                                        ![p].nodes = g.nodes, ![p].edges = g.edges]
    /\ UNCHANGED << g, calls, mu >>
    /\ ConcFrame

\* g.nodes[node.ID] = node / g.edges = append(g.edges, edge)
Store(p) ==
    /\ goroutines[p].pc = "store"
    /\ LET me == goroutines[p] IN
       /\ g' = IF me.op = "AddNode"
               THEN AddNode([g EXCEPT !.nodes = me.nodes], me.node)
               ELSE AddEdge([g EXCEPT !.edges = me.edges], me.edge)
       /\ calls' = Append(calls, [op |-> me.op, node |-> me.node, edge |-> me.edge])
    /\ goroutines' = [goroutines EXCEPT ![p].pc = "Unlock"]
    /\ UNCHANGED mu
    /\ ConcFrame

\* defer g.mu.Unlock()
Unlock(p) ==
    /\ goroutines[p].pc = "Unlock"
    /\ mu' = [mu EXCEPT !.w = IF mu.w = p THEN "" ELSE mu.w]
    /\ goroutines' = [goroutines EXCEPT ![p].pc = "idle"]
    /\ UNCHANGED << g, calls >>
    /\ ConcFrame

\* g.mu.RLock()
RLock(p) ==
    /\ goroutines[p].pc = "RLock"
    /\ RLockReady(mu)
    /\ mu' = [mu EXCEPT !.readers = mu.readers \cup {p}]
    /\ goroutines' = [goroutines EXCEPT ![p].pc = "readNodes"]
    /\ UNCHANGED << g, calls >>
    /\ ConcFrame

\* BFS reads g.nodes ...
ReadNodes(p) ==
    /\ goroutines[p].pc = "readNodes"
    /\ goroutines' = [goroutines EXCEPT ![p].pc = "readEdges", ![p].nodes = g.nodes]
    /\ UNCHANGED << g, calls, mu >>
    /\ ConcFrame

\* ... and then g.edges
ReadEdges(p) ==
    /\ goroutines[p].pc = "readEdges"
    /\ goroutines' = [goroutines EXCEPT ![p].pc = "RUnlock", ![p].edges = g.edges]
    /\ UNCHANGED << g, calls, mu >>
    /\ ConcFrame

\* defer g.mu.RUnlock()
RUnlock(p) ==
    /\ goroutines[p].pc = "RUnlock"
    /\ mu' = [mu EXCEPT !.readers = mu.readers \ {p}]
    /\ goroutines' = [goroutines EXCEPT ![p].pc = "idle"]
    /\ UNCHANGED << g, calls >>
    /\ ConcFrame

\* the next statement of goroutine p
GoStep(p) ==
    \/ Call(p)
    \/ LockWriters(p) \/ LockAcquired(p) \/ Load(p) \/ Store(p) \/ Unlock(p)
    \/ RLock(p) \/ ReadNodes(p) \/ ReadEdges(p) \/ RUnlock(p)

NextConc == \E p \in Goroutines : GoStep(p)

\* the Go scheduler runs every goroutine that can run
ConcSpec == InitConc /\ [][NextConc]_vars /\ \A p \in Goroutines : WF_vars(GoStep(p))

(***************************************************************************)
(* A client that builds a graph over the ids A..D (AddNode for some of the *)
(* ids, then at most MaxEdges AddEdge calls between any of the ids, self   *)
(* loops and edges to ids that are no nodes included) and then calls       *)
(* Graph.BFS and RenderTree from a start id.                               *)
(***************************************************************************)
TraverseIds == << "A", "B", "C", "D" >>

TraverseNode(k) == Node(Str(TraverseIds[k]), "", EmptyStr, Str("Node " \o TraverseIds[k]), << >>)

\* the k-th of the edges between the ids, counted row by row
TraverseEdge(k) ==
    Edge(Str(TraverseIds[((k - 1) \div Len(TraverseIds)) + 1]),
         Str(TraverseIds[((k - 1) % Len(TraverseIds)) + 1]), "", "")

RECURSIVE Ascending(_)
Ascending(S) ==
    IF S = {} THEN << >>
    ELSE LET m == CHOOSE x \in S : \A y \in S : x <= y
         IN << m >> \o Ascending(S \ {m})

RECURSIVE AddNodes(_, _)
AddNodes(gr, ks) ==
    IF ks = << >> THEN gr ELSE AddNodes(AddNode(gr, TraverseNode(Head(ks))), Tail(ks))

RECURSIVE AddEdges(_, _)
AddEdges(gr, ks) ==
    IF ks = << >> THEN gr ELSE AddEdges(AddEdge(gr, TraverseEdge(Head(ks))), Tail(ks))

TraverseGraphs ==
    {AddEdges(AddNodes(New, Ascending(ns)), Ascending(es)) :
        ns \in {S \in SUBSET (DOMAIN TraverseIds) : 1 \in S},
        es \in {S \in SUBSET (1..(Len(TraverseIds) * Len(TraverseIds))) :
                   Cardinality(S) <= MaxEdges}}

InitTraverse ==
    /\ resourceID \in {Str("A"), Str("D")}
    /\ opts = [MaxDepth |-> 0, MaxNodes |-> 1, Heuristics |-> << >>]
    /\ api = EmptyAccount
    /\ g \in TraverseGraphs
    /\ visited = {}
    /\ queue = << >>
    /\ currentDepth = 0
    /\ levelSize = 0
    /\ i = 0
    /\ pc = "built"
    /\ err = FALSE
    /\ expansions = << >>
    /\ pushes = << >>
    /\ dequeued = << >>
    /\ calls = << >>
    /\ mu = Unlocked
    /\ goroutines = << >>
    /\ lookups = << >>
    /\ rendered = NotRendered
    /\ levels = << >>

\* levels := g.BFS(startID)
CallBFS ==
    /\ pc = "built"
    /\ levels' = BFS(g, resourceID)
    /\ pc' = "traversed"
    /\ UNCHANGED << resourceID, opts, api, g, visited, queue, currentDepth, levelSize, i,
                    err, expansions, pushes, dequeued, calls, mu, goroutines, lookups,
                    rendered >>

\* output.RenderTree(w, g, startID)
CallRenderTree ==
    /\ pc = "traversed"
    /\ rendered' = RenderTree(g, resourceID)
    /\ pc' = "rendered"
    /\ UNCHANGED << resourceID, opts, api, g, visited, queue, currentDepth, levelSize, i,
                    err, expansions, pushes, dequeued, calls, mu, goroutines, lookups,
                    levels >>

NextTraverse == CallBFS \/ CallRenderTree

TraverseSpec == InitTraverse /\ [][NextTraverse]_vars

(***************************************************************************)
(* Properties of Discover and of the graph                                 *)
(***************************************************************************)
\* no id occurs twice in a history
NoRepeat(h) == \A a, b \in DOMAIN h : h[a].id = h[b].id => a = b

\* the run of the same command on the same account in which every list
\* comes back in the API's own order
Reference ==
    RunToEnd(IdentifyStep(Start(New), resourceID, api, NoFault), opts, api, NoFault)

\* the AddNode calls a client has made so far
AddNodeCalls == {k \in DOMAIN calls : calls[k].op = "AddNode"}

\* the record of the last AddNode call for an id
LatestAdded(id) ==
    LET ks == {k \in AddNodeCalls : calls[k].node.ID = id}
    IN calls[CHOOSE k \in ks : \A j \in ks : j <= k].node

\* C1: when Discover returns, the graph holds at most MaxNodes nodes,
\* whatever the topology and however many resources one expansion finds.
NodeCountWithinMaxNodes ==
    pc = "done" => NodeCount(g) <= opts.MaxNodes

\* C2: the final node count and edge count are those of every other order
\* of expansion within the levels (here: of the run in the API's own order),
\* also when the maxNodes check fires in the middle of a level.
CountsIndependentOfOrder ==
    pc = "done" =>
        /\ NodeCount(g) = NodeCount(Reference.g)
        /\ EdgeCount(g) = EdgeCount(Reference.g)

\* C3: Discover returns an error exactly when the starting resource was not
\* identified; after an expander error the neighbours it did return are
\* still enqueued and the run goes on until the frontier is empty, the depth
\* is exceeded or the node cap is reached, and then returns nil.
ErrorOnlyFromIdentification ==
    /\ pc = "done" =>
          /\ err <=> (pushes = << >>)
          /\ ~err => \/ CapReached(g, opts)
                     \/ ~ShouldContinue(queue, currentDepth, opts)
    /\ pc \in {"loop", "level"} => ~err
    /\ \A k \in DOMAIN expansions :
          \A m \in DOMAIN expansions[k].neighbors :
              expansions[k].neighbors[m] \in visited

\* C3's case: an expansion failed, and nodes of the same level and of a
\* later level were expanded after it before Discover returned nil
ExpanderErrorSurvived ==
    /\ pc = "done" /\ ~err
    /\ \E k, a, b \in DOMAIN expansions :
          /\ expansions[k].err
          /\ k < a /\ expansions[a].depth = expansions[k].depth
          /\ k < b /\ expansions[b].depth > expansions[k].depth

\* C4: each id is enqueued at most once, dequeued at most once and expanded
\* at most once, cycles included.
EachIdOnce ==
    /\ NoRepeat(pushes)
    /\ NoRepeat(dequeued)
    /\ NoRepeat(expansions)
    /\ \A k \in DOMAIN queue : \A j \in DOMAIN queue : queue[k] = queue[j] => k = j

\* C4's case: an expansion returned as neighbour an id expanded before it
\* (a link back into the visited part of a cycle)
BackLinkSeen ==
    \E a, b \in DOMAIN expansions :
        /\ a < b
        /\ \E m \in DOMAIN expansions[b].neighbors :
              expansions[b].neighbors[m] = expansions[a].id

\* C5: every step of Discover moves it on (to another statement or to the
\* next id of the level), and Discover eventually returns; it never runs
\* forever and never reads past the end of the queue.
Terminates ==
    /\ [][pc' # pc \/ i' # i]_vars
    /\ <>(pc = "done")

\* C5's case: Discover has returned from a run over a cycle of resources
ReturnedFromCycle ==
    /\ pc = "done"
    /\ \E a, b \in DOMAIN expansions :
          /\ a # b
          /\ \E m \in DOMAIN expansions[a].neighbors :
                expansions[a].neighbors[m] = expansions[b].id
          /\ \E m \in DOMAIN expansions[b].neighbors :
                expansions[b].neighbors[m] = expansions[a].id

\* C6: ids are dequeued level by level: each id is dequeued at the depth it
\* was enqueued for, in order of depth, and while level N is being processed
\* every id of a lower depth has been dequeued and no id deeper than N+1 has
\* been enqueued.
StrictLevelOrder ==
    /\ \A k \in DOMAIN dequeued : \E p \in DOMAIN pushes : pushes[p] = dequeued[k]
    /\ \A k, j \in DOMAIN dequeued : k < j => dequeued[k].depth <= dequeued[j].depth
    /\ \A k \in DOMAIN expansions : \E j \in DOMAIN dequeued :
          /\ dequeued[j].id = expansions[k].id
          /\ dequeued[j].depth = expansions[k].depth
    /\ pc \in {"loop", "level"} =>
          \A p \in DOMAIN pushes :
              /\ pushes[p].depth <= currentDepth + 1
              /\ pushes[p].depth < currentDepth =>
                    \E k \in DOMAIN dequeued : dequeued[k] = pushes[p]

\* C6's case: a level of two or more ids was processed and an id of the next
\* level has been dequeued
NextLevelAfterWideLevel ==
    \E k \in DOMAIN dequeued :
        /\ dequeued[k].depth >= 2
        /\ Cardinality({j \in DOMAIN dequeued :
                            dequeued[j].depth = dequeued[k].depth - 1}) >= 2

\* C7: only ids of depth 0..MaxDepth are expanded; an id enqueued for depth
\* MaxDepth+1 is in the graph and is never expanded; with MaxDepth = 0 only
\* the root is expanded.
ExpandsOnlyWithinMaxDepth ==
    /\ \A k \in DOMAIN expansions : expansions[k].depth \in 0..opts.MaxDepth
    /\ \A p \in DOMAIN pushes :
          pushes[p].depth = opts.MaxDepth + 1 =>
              /\ HasNode(g, pushes[p].id)
              /\ \A k \in DOMAIN expansions : expansions[k].id # pushes[p].id
    /\ opts.MaxDepth = 0 =>
          \A k \in DOMAIN expansions : expansions[k].id = pushes[1].id

\* C7's case: Discover returned because the depth ran out, leaving ids of
\* depth MaxDepth+1 in the graph
StoppedByDepth ==
    /\ pc = "done" /\ ~err
    /\ ~CapReached(g, opts)
    /\ opts.MaxDepth >= 1
    /\ expansions # << >>
    /\ \E p \in DOMAIN pushes : pushes[p].depth = opts.MaxDepth + 1

\* C8: with MaxNodes = 1 and an identified root, no expander is invoked and
\* the graph returned has exactly 1 node and 0 edges.
MaxNodesOneKeepsSeedOnly ==
    opts.MaxNodes = 1 /\ pushes # << >> =>
        /\ expansions = << >>
        /\ NodeCount(g) = 1
        /\ EdgeCount(g) = 0

\* C8's case: Discover returned nil with MaxNodes = 1 and a depth that would
\* have allowed expansions
ReturnedWithMaxNodesOne ==
    pc = "done" /\ ~err /\ opts.MaxNodes = 1 /\ opts.MaxDepth >= 1

\* C9: an id expanded at depth D > 0 was returned as a neighbour by an
\* earlier expansion at depth D-1; at depth 0 only the root is expanded.
ExpandedByParentLevel ==
    \A k \in DOMAIN expansions :
        IF expansions[k].depth = 0
        THEN expansions[k].id = pushes[1].id
        ELSE \E j \in 1..(k - 1) :
                /\ expansions[j].depth = expansions[k].depth - 1
                /\ \E m \in DOMAIN expansions[j].neighbors :
                      expansions[j].neighbors[m] = expansions[k].id

\* C9's case: an id two levels below the root has been expanded
GrandchildExpanded ==
    \E k \in DOMAIN expansions : expansions[k].depth = 2

\* C10: after any sequence of calls NodeCount is the number of distinct ids
\* given to AddNode, and for each of them HasNode is true and GetNode
\* returns the record of the last AddNode call for that id.
AddNodeLastWriterWins ==
    pc = "client" =>
        LET ids == {calls[k].node.ID : k \in AddNodeCalls} IN
        /\ NodeCount(g) = Cardinality(ids)
        /\ \A id \in ids :
              /\ HasNode(g, id)
              /\ GetNode(g, id) = [node |-> LatestAdded(id), ok |-> TRUE]
        /\ \A n \in ClientNodes : n.ID \notin ids => ~HasNode(g, n.ID)

\* C10's case: AddNode was called twice with the same id and different
\* records
SameIdAddedTwice ==
    \E a, b \in AddNodeCalls :
        /\ a < b
        /\ calls[a].node.ID = calls[b].node.ID
        /\ calls[a].node # calls[b].node

\* the graph a sequence of completed AddNode / AddEdge calls builds
RECURSIVE Replay(_)
Replay(cs) ==
    IF cs = << >> THEN New
    ELSE LET c    == cs[Len(cs)]
             prev == Replay(SubSeq(cs, 1, Len(cs) - 1))
         IN IF c.op = "AddNode" THEN AddNode(prev, c.node) ELSE AddEdge(prev, c.edge)

\* no goroutine is inside a call
AllIdle == \A p \in Goroutines : goroutines[p].pc = "idle"

\* C11: under every interleaving no update is lost (once every call has
\* returned, the graph is the one the completed writes build in the order
\* they completed: one node per distinct id, one edge per AddEdge call), each
\* BFS has read the nodes and the edges of one prefix of the completed
\* writes, and every call that has begun returns.
ConcurrentCallsSafe ==
    /\ [](AllIdle =>
            /\ g = Replay(calls)
            /\ NodeCount(g) =
                  Cardinality({calls[k].node.ID : k \in AddNodeCalls})
            /\ EdgeCount(g) = Len(calls) - Cardinality(AddNodeCalls))
    /\ [](\A p \in Goroutines :
            goroutines[p].pc = "RUnlock" =>
                \E k \in 0..Len(calls) :
                    LET seen == Replay(SubSeq(calls, 1, k)) IN
                    /\ goroutines[p].nodes = seen.nodes
                    /\ goroutines[p].edges = seen.edges)
    /\ \A p \in Goroutines :
          (goroutines[p].pc # "idle") ~> (goroutines[p].pc = "idle")

\* C11's case: two writers and a reader contend: one goroutine is between
\* its read and its write of the graph, another waits for the write lock and
\* a third waits for the read lock
WritersAndReaderContend ==
    \E p, q, r \in Goroutines :
        /\ goroutines[p].pc = "store"
        /\ goroutines[q].pc = "Lock"
        /\ goroutines[r].pc = "RLock"

\* C12: at every point of a run, every edge of the graph runs between two
\* ids that are nodes of the graph, and were nodes when the edge was added.
EdgeEndpointsExist ==
    /\ \A k \in DOMAIN g.edges :
          HasNode(g, g.edges[k].From) /\ HasNode(g, g.edges[k].To)
    /\ g.dangling = {}

\* C12's case: expanders have added an edge from a node created with it, and
\* two edges from different sources to one node, the second of them to a
\* node that was in the graph already
EdgesToFoundAndNewNodes ==
    /\ \E k, j \in DOMAIN g.edges :
          /\ k < j
          /\ g.edges[k].To = g.edges[j].To
          /\ g.edges[k].From # g.edges[j].From
    /\ \E k \in DOMAIN g.edges : g.edges[k].RelationType = "triggers"

\* C13: an expansion that comes upon an id that is already a node of the
\* graph leaves the stored record as it was (it adds only edges): no step
\* changes the record of an existing node.
ExistingNodesKept ==
    [][\A id \in DOMAIN g.nodes : g'.nodes[id] = g.nodes[id]]_vars

\* the graph has an edge from one id to another
HasEdge(gr, from, to) ==
    \E k \in DOMAIN gr.edges : gr.edges[k].From = from /\ gr.edges[k].To = to

\* C14: the expansion of an RDS instance that found its cluster has added an
\* edge from the instance to the cluster, and the expansion of an RDS
\* cluster has added, for each member found, an edge from the cluster to the
\* member instance.
ClusterMembershipBothWays ==
    \A k \in DOMAIN expansions :
        \A m \in DOMAIN expansions[k].neighbors :
            LET n == expansions[k].neighbors[m] IN
            /\ (/\ expansions[k].type = ResourceTypeRDSInstance
                /\ GetNode(g, n).node.Type = ResourceTypeRDSCluster)
                  => HasEdge(g, expansions[k].id, n)
            /\ (/\ expansions[k].type = ResourceTypeRDSCluster
                /\ GetNode(g, n).node.Type = ResourceTypeRDSInstance)
                  => HasEdge(g, expansions[k].id, n)

\* the types the dispatch of discoverNode has an expander for
IdentifiedTypes ==
    {"LoadBalancer", "ECSService", "Lambda", ResourceTypeRDSInstance, ResourceTypeRDSCluster}

\* C15: when identification has accepted a fully-qualified identifier (the
\* seed is in the graph and nothing has been expanded yet), the seed node's
\* type is one of LoadBalancer, ECSService, Lambda, RDSInstance, RDSCluster,
\* and never empty.
ArnSeedTypeKnown ==
    (pc = "loop" /\ dequeued = << >> /\ IsArnPrefixed(resourceID))
        => GetNode(g, queue[1]).node.Type \in IdentifiedTypes

\* the services parseARN has a case for
SupportedServices == {"elasticloadbalancing", "ecs", "lambda", "rds"}

\* an input that begins with "arn:" and has fewer than six segments or names
\* a service outside the supported set
MalformedArn(s) ==
    IsArnPrefixed(s) /\ (Len(s) < 6 \/ \A svc \in SupportedServices : s[3] # <<svc>>)

\* C16: for an input that begins with "arn:" and has fewer than six
\* colon-separated segments or an unsupported service, Discover returns an
\* error at identification and the graph is left with no node and no edge.
MalformedArnRejected ==
    (MalformedArn(resourceID) /\ pc # "start")
        => /\ pc = "done"
           /\ err
           /\ NodeCount(g) = 0
           /\ EdgeCount(g) = 0
           /\ expansions = << >>

\* Discover has returned for a five-segment ARN of a supported service
ReturnedForFiveSegmentArn ==
    pc = "done" /\ resourceID = FiveSegmentArn

\* the number of '/' in a string
RECURSIVE Slashes(_)
Slashes(s) == IF s = << >> THEN 0 ELSE (Len(Head(s)) - 1) + Slashes(Tail(s))

\* the resolvers in the order the friendly-name lookup is to try them for an
\* input
LookupOrder(s) ==
    << "resolveLoadBalancerByName" >>
    \o (IF Slashes(s) = 1 THEN << "resolveECSService" >> ELSE << >>)
    \o << "resolveLambdaFunction", "resolveRDSInstance" >>

\* the node type each resolver yields
TypeResolved(fn) ==
    CASE fn = "resolveLoadBalancerByName" -> "LoadBalancer"
      [] fn = "resolveECSService"         -> "ECSService"
      [] fn = "resolveLambdaFunction"     -> "Lambda"
      [] fn = "resolveRDSInstance"        -> ResourceTypeRDSInstance

\* C17: once identification of a friendly name is over, the lookups it
\* attempted are an initial part of the order load balancer name,
\* cluster/service (in the order only when the input has exactly one '/'),
\* function name, DB identifier; every lookup before the last one failed; on
\* success the last lookup attempted is the one that succeeded and it gave
\* the seed its type; and the not-found error is returned only after every
\* lookup of the order was attempted and failed.
LookupOrderKept ==
    (pc # "start" /\ ~IsArnPrefixed(resourceID))
        => /\ Len(lookups) \in 1..Len(LookupOrder(resourceID))
           /\ \A k \in DOMAIN lookups : lookups[k].fn = LookupOrder(resourceID)[k]
           /\ \A k \in 1..(Len(lookups) - 1) : ~lookups[k].ok
           /\ lookups[Len(lookups)].ok = ~err
           /\ ~err => GetNode(g, pushes[1].id).ok
           /\ (~err /\ dequeued = << >>) =>
                 GetNode(g, pushes[1].id).node.Type = TypeResolved(lookups[Len(lookups)].fn)
           /\ err => Len(lookups) = Len(LookupOrder(resourceID))

\* the function-name lookup identified the input after the load balancer
\* lookup had failed, and the DB identifier lookup was not attempted
LambdaFoundSecond ==
    /\ pc = "loop"
    /\ dequeued = << >>
    /\ lookups = << [fn |-> "resolveLoadBalancerByName", ok |-> FALSE],
                    [fn |-> "resolveLambdaFunction", ok |-> TRUE] >>

\* the input is the identifier of an RDS cluster of the account and of no DB
\* instance
OnlyAClusterIdentifier(s) ==
    /\ \E c \in DOMAIN api.dbClusters : api.dbClusters[c].DBClusterIdentifier = s
    /\ \A d \in DOMAIN api.dbInstances : api.dbInstances[d].DBInstanceIdentifier # s

\* C18: with every lookup answered, a friendly name that is the identifier of
\* an RDS cluster only is identified, and the seed node has type RDSCluster.
ClusterNameIdentified ==
    (pc # "start" /\ OnlyAClusterIdentifier(resourceID))
        => /\ ~err
           /\ dequeued = << >> =>
                 GetNode(g, pushes[1].id).node.Type = ResourceTypeRDSCluster

\* C19: a step that dispatches a node whose type has no expander gets zero
\* neighbours and no error, and leaves the graph, the visited set and the
\* rest of the frontier as they were.
NoExpanderIsNoOp ==
    [][(/\ Len(expansions') = Len(expansions) + 1
        /\ expansions'[Len(expansions')].type \notin IdentifiedTypes)
          => /\ expansions'[Len(expansions')].neighbors = << >>
             /\ ~expansions'[Len(expansions')].err
             /\ g' = g
             /\ visited' = visited
             /\ queue' = Dequeue(queue).queue
             /\ err' = err]_vars

\* a node of a type without an expander was dispatched below the seed
DispatchedWithoutExpander ==
    \E k \in DOMAIN expansions :
        /\ expansions[k].type \notin IdentifiedTypes
        /\ expansions[k].depth >= 1
        /\ Len(queue) >= 1

RenderSucceedsAfterDiscover ==
    (pc = "exit" /\ ~err) => (~rendered.err /\ ~rendered.panic)

\* the places (level, line) of the tree at which a node id is listed
ListedAt(id) ==
    {<<l, k>> \in (DOMAIN rendered.levels) \X (1..(MaxNodesBound + DefaultMaxNodes)) :
        /\ k \in DOMAIN rendered.levels[l].lines
        /\ rendered.levels[l].lines[k].ID = id}

\* the tree was written: runGraph has returned without an error
TreeWritten == pc = "exit" /\ ~err /\ ~rendered.err /\ ~rendered.panic

\* C22: in a tree that was written, every neighbour the root's expansion
\* returned is listed in Level 1, whichever way its edge points, and every
\* node of the graph (the nodes the summary counts) is listed in exactly one
\* place.
NeighboursListedInLevelOne ==
    TreeWritten =>
        /\ \A e \in DOMAIN expansions :
              expansions[e].id = pushes[1].id =>
                  \A m \in DOMAIN expansions[e].neighbors :
                      expansions[e].neighbors[m] # pushes[1].id =>
                          \E p \in ListedAt(expansions[e].neighbors[m]) :
                              rendered.levels[p[1]].Depth = 1
        /\ \A id \in DOMAIN g.nodes : Cardinality(ListedAt(id)) = 1

\* the ids within distance d of the start id along outgoing edges
RECURSIVE Within(_, _, _)
Within(gr, startID, d) ==
    IF d < 0 THEN {}
    ELSE IF d = 0 THEN {startID}
    ELSE LET near == Within(gr, startID, d - 1)
         IN near \cup {gr.edges[k].To : k \in {j \in DOMAIN gr.edges : gr.edges[j].From \in near}}

\* every edge of the graph joins two of its nodes
EdgesJoinNodes(gr) ==
    \A k \in DOMAIN gr.edges : HasNode(gr, gr.edges[k].From) /\ HasNode(gr, gr.edges[k].To)

\* C23: for a graph whose edges all join existing nodes and a start id that
\* is a node, level d of the result of BFS holds exactly the nodes at
\* shortest distance d from the start along outgoing edges, each once, the
\* levels end where the reachable nodes end, and so every reachable node is
\* in exactly one level and no unreachable one in any; for a start id that
\* is not a node the result is nil.
BFSLevelsAreDistances ==
    pc = "traversed" =>
        /\ ~HasNode(g, resourceID) => levels = << >>
        /\ (HasNode(g, resourceID) /\ EdgesJoinNodes(g)) =>
              /\ Len(levels) >= 1
              /\ \A l \in DOMAIN levels :
                    /\ levels[l].Depth = l - 1
                    /\ {levels[l].Nodes[k].node.ID : k \in DOMAIN levels[l].Nodes}
                          = Within(g, resourceID, l - 1) \ Within(g, resourceID, l - 2)
                    /\ \A k \in DOMAIN levels[l].Nodes :
                          /\ levels[l].Nodes[k].ok
                          /\ levels[l].Nodes[k].node = g.nodes[levels[l].Nodes[k].node.ID]
                    /\ \A j, k \in DOMAIN levels[l].Nodes :
                          levels[l].Nodes[j] = levels[l].Nodes[k] => j = k
                    /\ levels[l].Nodes # << >>
              /\ Within(g, resourceID, Len(levels)) = Within(g, resourceID, Len(levels) - 1)

\* BFS has returned three levels for a diamond: two nodes at distance 1 and
\* one node at distance 2 that both of them point to
DiamondTraversed ==
    /\ pc = "traversed"
    /\ EdgesJoinNodes(g)
    /\ Len(levels) = 3
    /\ Len(levels[2].Nodes) = 2
    /\ Len(levels[3].Nodes) = 1
    /\ Len(EdgesTo(g, levels[3].Nodes[1].node.ID)) = 2

\* the node the next iteration of the inner loop is about to expand
AboutToExpand ==
    /\ pc = "level"
    /\ InnerLoopContinues(i, levelSize)
    /\ ~CapReached(g, opts)
    /\ Len(queue) > 0
    /\ GetNode(g, Dequeue(queue).nodeID).ok
    /\ GetNode(g, Dequeue(queue).nodeID).node.Type \in IdentifiedTypes

\* the lookup of an expander that a fault makes fail; the lookups of one
\* group are made one inside the other
LookupGroup(fault) ==
    CASE fault \in {"listeners", "rules", "tg", "health"} -> "listeners"
      [] fault \in {"zones", "records"}                    -> "route53"
      [] fault \in {"targets", "policies"}                 -> "scaling"
      [] OTHER                                             -> fault

\* the edges an expander adds from the record its required describe call
\* returned, without a further lookup
FromDescribe(edge) ==
    \/ edge.RelationType \in {"uses-security-group", "uses-subnet", "uses-subnet-group",
                              "uses-parameter-group", "contains", "runs-in",
                              "runs-in-subnet", "registers-with"}
    \/ edge.Evidence.APICall = "GetFunction"

Range(s) == {s[k] : k \in DOMAIN s}

\* the failing calls that make the whole of a group of lookups fail
OuterFaults == {"listeners", "zones", "taskdef", "targets", "esm", "dest"}

\* the neighbours the expansion of a node loses when the environment's
\* choice is `in` instead of no failure
Lost(node, in) ==
    Range(discoverNode(node, g, opts, api, [in EXCEPT !.fault = "none"]).neighbors)
        \ Range(discoverNode(node, g, opts, api, in).neighbors)

\* C24: for the node about to be expanded and every choice of the failing
\* call: an expansion that returns an error returns no neighbour and leaves
\* the graph as it was; it returns an error when the required describe call
\* fails or finds no resource, and only then; and when a secondary lookup
\* fails, the neighbours are among those of the run without the failure,
\* every edge made from the describe record is still added, and no
\* neighbour is lost that the failure of another group of lookups loses
\* too (it was gathered by that other lookup).
RequiredFailsSecondaryAbsorbed ==
    AboutToExpand =>
        LET node == GetNode(g, Dequeue(queue).nodeID).node IN
        \A in \in ExpandInputs :
            LET res  == discoverNode(node, g, opts, api, in)
                base == discoverNode(node, g, opts, api, [in EXCEPT !.fault = "none"])
                lost == Range(base.neighbors) \ Range(res.neighbors)
            IN /\ res.err => (res.neighbors = << >> /\ res.g = g)
               /\ res.err = (in.fault = "describe" \/ base.err)
               /\ ~res.err =>
                     /\ Range(res.neighbors) \subseteq Range(base.neighbors)
                     /\ \A k \in (Len(g.edges) + 1)..Len(base.g.edges) :
                           FromDescribe(base.g.edges[k]) =>
                               \E j \in (Len(g.edges) + 1)..Len(res.g.edges) :
                                   res.g.edges[j] = base.g.edges[k]
                     /\ lost # {} =>
                           \A fault \in OuterFaults :
                               LookupGroup(fault) # LookupGroup(in.fault) =>
                                   lost \cap Lost(node, [in EXCEPT !.fault = fault, !.page = 1])
                                       = {}

\* function f1 was expanded while its event source mappings could not be
\* listed: the expansion returned no error and at least three neighbours,
\* the destination of its invoke config among them, and no event source
SecondaryLookupFailed ==
    /\ resourceID = Fn1Arn
    /\ Len(expansions) >= 1
    /\ expansions[1].type = "Lambda"
    /\ ~expansions[1].err
    /\ Len(expansions[1].neighbors) >= 3
    /\ \A k \in DOMAIN g.edges : g.edges[k].RelationType # "triggers"
    /\ \E k \in DOMAIN g.edges : g.edges[k].RelationType = "sends-success-to"

\* the edges of the AddEdge calls made so far, in the order of the calls
RECURSIVE EdgesAdded(_)
EdgesAdded(cs) ==
    IF cs = << >> THEN << >>
    ELSE LET c == cs[Len(cs)]
             before == EdgesAdded(SubSeq(cs, 1, Len(cs) - 1))
         IN IF c.op = "AddEdge" THEN Append(before, c.edge) ELSE before

\* C25: every AddEdge call makes EdgeCount one larger and puts its edge last,
\* whether or not the same edge is there already and whether or not its
\* endpoints are nodes; no call removes or reorders the edges that were
\* there; and Edges() returns the edges of all AddEdge calls in the order of
\* the calls.
EdgesAppendOnly ==
    [][/\ Len(calls') = Len(calls) + 1
       /\ SubSeq(g'.edges, 1, Len(g.edges)) = g.edges
       /\ calls'[Len(calls')].op = "AddEdge" =>
             /\ EdgeCount(g') = EdgeCount(g) + 1
             /\ g'.edges[Len(g'.edges)] = calls'[Len(calls')].edge
       /\ calls'[Len(calls')].op = "AddNode" => EdgeCount(g') = EdgeCount(g)
       /\ Edges(g') = EdgesAdded(calls')]_vars

\* the same edge was added twice, to an id that is not a node
SameEdgeAddedTwice ==
    /\ pc = "client"
    /\ EdgeCount(g) >= 2
    /\ g.edges[1] = g.edges[2]
    /\ ~HasNode(g, g.edges[1].To)

\* C26: once the seed is identified, every node of the graph is in the
\* visited set: each node an expander added was among the neighbours it
\* returned to Discover.
AddedNodesAreVisited ==
    pc \in {"loop", "level", "done"} => DOMAIN g.nodes \subseteq visited

\* the nodes of the graph that stand for the RDS resource (instance or
\* cluster) of a name
RdsNodesNamed(name) ==
    {id \in DOMAIN g.nodes :
        /\ g.nodes[id].Type \in {ResourceTypeRDSInstance, ResourceTypeRDSCluster}
        /\ g.nodes[id].Name = name}

\* C27: in a run from the ARN of an RDS instance that is a member of a
\* cluster, or from the ARN of a cluster, that has returned with maxDepth >=
\* 2 and the node cap not reached, the resource of the seed is one node of
\* the graph and was expanded once.
SeedResourceIsOneNode ==
    (/\ pc = "done"
     /\ ~err
     /\ opts.MaxDepth >= 2
     /\ NodeCount(g) < opts.MaxNodes
     /\ \/ resourceID = AuroraArn
        \/ /\ resourceID = DbArn("db1")
           /\ Str("db1") \in DOMAIN api.dbInstances
           /\ api.dbInstances[Str("db1")].DBClusterIdentifier # << >>)
        => LET name == g.nodes[resourceID].Name IN
           /\ Cardinality(RdsNodesNamed(name)) = 1
           /\ Cardinality({e \in DOMAIN expansions : expansions[e].id \in RdsNodesNamed(name)}) = 1

\* C28: for a start id that is a node of the graph, every entry of every
\* level BFS returned is a node stored in the graph, never the nil node, and
\* RenderTree reads the fields of each of them without a panic; also for a
\* graph with an edge whose target was never added as a node.
BFSEntriesAreNodes ==
    (pc \in {"traversed", "rendered"} /\ HasNode(g, resourceID))
        => /\ \A l \in DOMAIN levels : \A k \in DOMAIN levels[l].Nodes :
                 /\ levels[l].Nodes[k].ok
                 /\ HasNode(g, levels[l].Nodes[k].node.ID)
           /\ ~rendered.panic

\* C29: the queue holds no id twice, every queued id is in the visited set
\* and is the id of a node of the graph, and every id taken off the queue
\* was dispatched: the skip for a missing node was never taken.
FrontierSound ==
    /\ \A a, b \in DOMAIN queue : queue[a] = queue[b] => a = b
    /\ \A k \in DOMAIN queue : queue[k] \in visited /\ HasNode(g, queue[k])
    /\ Len(dequeued) = Len(expansions)
    /\ \A k \in DOMAIN dequeued : expansions[k].id = dequeued[k].id

\* two ids wait in the queue after an expansion returned an id that had
\* already been taken off the queue
QueuedAfterRediscovery ==
    /\ Len(queue) >= 2
    /\ \E e \in DOMAIN expansions :
          \E m \in DOMAIN expansions[e].neighbors :
             \E d \in DOMAIN dequeued :
                d < e /\ dequeued[d].id = expansions[e].neighbors[m]

\* C30: once an id is a node of the graph, no later step of the run changes
\* the Type recorded for it.
NodeTypeStable ==
    [][\A id \in DOMAIN g.nodes :
          id \in DOMAIN g'.nodes /\ g'.nodes[id].Type = g.nodes[id].Type]_vars

====
